---- MODULE Spec2Model ----
(***************************************************************************)
(* A model of the local media search pipeline (src/backend): the text      *)
(* chunker, the document builder of the indexer and the query engine.       *)
(*                                                                          *)
(* Conventions.                                                             *)
(*  - A Python str that the code cuts or scans (the chunker's input) is a   *)
(*    sequence of one-character strings.  The full-width terminators are    *)
(*    written "KUTEN" (。), "JP_EXCL" (！) and "JP_QUES" (？): each stands   *)
(*    for one character.                                                    *)
(*  - A Python str that the code only formats (an f-string) is the sequence *)
(*    of its pieces, literals and interpolated values in order, so that     *)
(*    concatenation is \o and two strings are equal when their pieces are.  *)
(*  - A Python dict is a function on the set of its keys.  Scalar values    *)
(*    are strings ("1920", "", "None"): an f-string renders them as is.     *)
(*  - Messages of the code that are written in Japanese are named by ASCII  *)
(*    strings; the comment beside each gives the original.                  *)
(***************************************************************************)
EXTENDS Integers, Sequences, FiniteSets, TLC

VARIABLES
    chunk_size,     \* TextChunker.chunk_size
    chunk_overlap,  \* TextChunker.chunk_overlap
    lastCall,       \* the last call made on the chunker, with what it returned
    indexer,        \* LocalLLMQueryEngine.indexer: "None" or "MediaIndexer"
    db,             \* MediaIndexer.db of that indexer: "None" or "Client"
    requests_available, \* query.REQUESTS_AVAILABLE
    qpc,            \* where the running query() is
    question,       \* the question of the running query()
    search_results, \* query(): search_results
    evidence,       \* query(): evidence
    http,           \* what the HTTP call of _call_llm did, "none" before it
    llm_response,   \* query(): llm_response
    result,         \* what query() returned
    searches,       \* calls of indexer.search made by the running query()
    llm_calls,      \* calls of _call_llm made by the running query()
    hashseed,       \* the string hashing of the running interpreter process, as
                    \* the order in which a set of source types is iterated
    doc_record,     \* the record _create_document is called on
    doc_runs,       \* the documents built from doc_record so far, in call order
    doc_metadata,   \* what _extract_metadata made of doc_record
    chromadb_available, \* indexer.CHROMADB_AVAILABLE; MediaIndexer.db is None without it
    unique_ids,     \* whether the store refuses an id it already holds
    store,          \* what the vector store holds: the entries added, in order
    ipc,            \* where the running index_metadata() is
    metadata_list,  \* index_metadata(): metadata_list
    idx,            \* index_metadata(): the record the loop is at, from 1
    store_calls,    \* the calls the running index_metadata() made on the store
    add_raised,     \* the records whose add the store refused, this call
    index_warnings, \* the records the running index_metadata() logged a warning for
    hits,           \* the last search() made on the indexer, with what it returned
    max_entries,    \* ArchiveListExtractor.max_entries
    max_size_gb,    \* ArchiveListExtractor.max_size_gb
    archive,        \* the archive file extract() is called on
    archive_result, \* what extract() returned
    root_exists,    \* whether MediaScanner.root_path exists
    tree,           \* the files under root_path, in the order os.walk gives them
    scanner_metadata_list, \* MediaScanner.metadata_list
    spc,            \* where the running scan() is
    walk,           \* scan(): the file the walk is at, from 1
    scan_result,    \* what the last scan() returned
    scans,          \* the scan() calls made on the scanner
    text_max_size,  \* TextSourceExtractor.text_max_size
    text_op,        \* the method called on the TextSourceExtractor, "none" before
    sidecars,       \* the sidecar files the call goes over, in its order
    text_result,    \* what the call returned
    text_reads,     \* the sidecar ids _read_text_file was called on, in order
    text_media,     \* the media_path extract_from_path was called with
    ffprobe_available, \* VideoAudioMetaExtractor.ffprobe_available
    va_op,          \* "extract" while a call of extract() has its result, "none" else
    ffprobe,        \* how the ffprobe run of the call went, and what it printed
    va_meta,        \* the dictionary extract() returned
    mutagen_available, \* AudioMetaExtractor.mutagen_available
    audio_op,       \* "extract" while a call of AudioMetaExtractor.extract() has its result
    mutagen,        \* what MutagenFile(filepath) did in the call
    audio_calls,    \* the tools the call went to, in order
    audio_meta      \* the dictionary AudioMetaExtractor.extract() returned

chunkerVars == <<chunk_size, chunk_overlap, lastCall>>

queryVars == <<indexer, db, requests_available, qpc, question, search_results,
               evidence, http, llm_response, result, searches, llm_calls>>

docVars == <<hashseed, doc_record, doc_runs, doc_metadata>>

indexerVars == <<chromadb_available, unique_ids, store, ipc, metadata_list, idx, store_calls,
                 add_raised, index_warnings, hits>>

archiveVars == <<max_entries, max_size_gb, archive, archive_result>>

scannerVars == <<root_exists, tree, scanner_metadata_list, spc, walk, scan_result, scans>>

textVars == <<text_max_size, text_op, sidecars, text_result, text_reads, text_media>>

videoAudioVars == <<ffprobe_available, va_op, ffprobe, va_meta>>

audioVars == <<mutagen_available, audio_op, mutagen, audio_calls, audio_meta>>

vars == <<chunkerVars, queryVars, docVars, indexerVars, archiveVars, scannerVars,
          textVars, videoAudioVars, audioVars>>

\* What the actions of one component leave alone.
notChunker == <<queryVars, docVars, indexerVars, archiveVars, scannerVars, textVars,
                videoAudioVars, audioVars>>

notQuery == <<chunkerVars, docVars, indexerVars, archiveVars, scannerVars, textVars,
              videoAudioVars, audioVars>>

notDoc == <<chunkerVars, queryVars, indexerVars, archiveVars, scannerVars, textVars,
            videoAudioVars, audioVars>>

notIndexer == <<chunkerVars, queryVars, doc_record, doc_runs, doc_metadata, archiveVars,
                scannerVars,
                textVars, videoAudioVars, audioVars>>

notArchive == <<chunkerVars, queryVars, docVars, indexerVars, scannerVars, textVars,
                videoAudioVars, audioVars>>

notScanner == <<chunkerVars, queryVars, docVars, indexerVars, archiveVars, textVars,
                videoAudioVars, audioVars>>

notText == <<chunkerVars, queryVars, docVars, indexerVars, archiveVars, scannerVars,
            videoAudioVars, audioVars>>

notVideoAudio == <<chunkerVars, queryVars, docVars, indexerVars, archiveVars, scannerVars,
                  textVars, audioVars>>

notAudio == <<chunkerVars, queryVars, docVars, indexerVars, archiveVars, scannerVars,
             textVars>>

Min(a, b) == IF a <= b THEN a ELSE b

-----------------------------------------------------------------------------
(* Bounds of the chunker's inputs.                                          *)

MaxTextLen == 4
MaxChunkSize == 3
MaxChars == 3

\* One ordinary character, one terminator, the newline and the blank.
Alphabet == {"a", ".", "\n", " "}

Texts == UNION {[1..n -> Alphabet] : n \in 0..MaxTextLen}

ChunkSizes == 1..MaxChunkSize

\* chunk_overlap may be below, equal to or above chunk_size: __init__ checks nothing.
ChunkOverlaps == 0..(MaxChunkSize + 1)

MaxCharsValues == 1..MaxChars

\* The metadata argument: None or {} (both falsy), a key of the caller's own, and a
\* key the chunk dict has too.
Metadatas == {<<>>, [path |-> "p"], [chunk_id |-> 7]}

-----------------------------------------------------------------------------
(* Python helpers.                                                          *)

\* s[i:j] for 0 <= i: the characters at 0-based positions i .. j-1 that exist.
Slice(s, i, j) == SubSeq(s, i + 1, Min(j, Len(s)))

\* str.strip() leaves something: some character is not whitespace.
Whitespace == {" ", "\n"}

StripsToNonEmpty(s) == \E k \in 1..Len(s) : s[k] \notin Whitespace

\* if metadata: chunk_data.update(metadata)
WithMetadata(chunk_data, metadata) ==
    IF metadata = <<>>
    THEN chunk_data
    ELSE [k \in DOMAIN chunk_data \cup DOMAIN metadata |->
              IF k \in DOMAIN metadata THEN metadata[k] ELSE chunk_data[k]]

\* The chunks as appended: each one after its update.
AllWithMetadata(chunks, metadata) ==
    [k \in 1..Len(chunks) |-> WithMetadata(chunks[k], metadata)]

-----------------------------------------------------------------------------
(* TextChunker.chunk                                                        *)

\* step = self.chunk_size - self.chunk_overlap
Step(cs, ov) == cs - ov

\* chunk_text = text[i:i + self.chunk_size]
ChunkTextTooLong(text, i, cs) == Slice(text, i, i + cs + 1)

ChunkText(text, i, cs) == Slice(text, i, i + cs)

\* One chunk_data dict of chunk().
FixedChunk(text, i, cs, id) ==
    [chunk_id   |-> id,
     text       |-> ChunkText(text, i, cs),
     start_char |-> i,
     end_char   |-> Min(i + cs, Len(text)),
     length     |-> Len(ChunkText(text, i, cs))]

\* for i in range(0, len(text), step), for step > 0: the body of the loop.
RECURSIVE ChunkLoop(_, _, _, _, _)
ChunkLoop(text, cs, step, i, chunks) ==
    IF i >= Len(text)
    THEN chunks
    ELSE ChunkLoop(text, cs, step, i + step,
                   IF Len(ChunkText(text, i, cs)) = 0
                   THEN chunks
                   ELSE Append(chunks, FixedChunk(text, i, cs, Len(chunks))))

\* chunk(text): what the call does.  range(0, n, 0) raises ValueError
\* ("range() arg 3 must not be zero"); range(0, n, step) with step < 0 is empty.
ChunkCall(text, cs, ov) ==
    IF Len(text) = 0
    THEN [outcome |-> "return", chunks |-> <<>>]
    ELSE IF Step(cs, ov) = 0
         THEN [outcome |-> "ValueError: range() arg 3 must not be zero", chunks |-> <<>>]
         ELSE IF Step(cs, ov) < 0
              THEN [outcome |-> "return", chunks |-> <<>>]
              ELSE [outcome |-> "return",
                    chunks  |-> ChunkLoop(text, cs, Step(cs, ov), 0, <<>>)]

-----------------------------------------------------------------------------
(* TextChunker._split_sentences                                             *)

Terminators == {"KUTEN", "JP_EXCL", "JP_QUES", ".", "!", "?"}

\* current[-2:]
LastTwo(current) == SubSeq(current, IF Len(current) >= 2 THEN Len(current) - 1 ELSE 1,
                           Len(current))

\* The loop over the characters; k is the 1-based position of char.
RECURSIVE SplitLoop(_, _, _, _)
SplitLoop(text, k, sentences, current) ==
    IF k > Len(text)
    THEN IF current # <<>> /\ StripsToNonEmpty(current)
         THEN Append(sentences, current)
         ELSE sentences
    ELSE LET cur == Append(current, text[k]) IN
         IF text[k] \in Terminators
         THEN SplitLoop(text, k + 1, Append(sentences, cur), <<>>)
         ELSE IF text[k] = "\n" /\ cur # <<>> /\ LastTwo(cur) # <<"", "\n">>
              THEN SplitLoop(text, k + 1,
                             IF StripsToNonEmpty(cur) THEN Append(sentences, cur)
                                                      ELSE sentences,
                             <<>>)
              ELSE SplitLoop(text, k + 1, sentences, cur)

SplitSentences(text) == SplitLoop(text, 1, <<>>, <<>>)

-----------------------------------------------------------------------------
(* TextChunker.chunk_by_sentences                                           *)

\* ''.join(current_chunk)
RECURSIVE Join(_)
Join(strs) == IF strs = <<>> THEN <<>> ELSE Head(strs) \o Join(Tail(strs))

\* if current_length + sentence_len > max_chars_per_chunk and current_chunk
ShouldFlushLate(current_length, sentence_len, current_chunk, maxc) ==
    current_length > maxc /\ current_chunk # <<>>

ShouldFlush(current_length, sentence_len, current_chunk, maxc) ==
    current_length + sentence_len > maxc /\ current_chunk # <<>>

\* One chunk_data dict of chunk_by_sentences().
SentenceChunk(id, current_chunk, current_length, char_offset) ==
    [chunk_id       |-> id,
     text           |-> Join(current_chunk),
     start_char     |-> char_offset - current_length,
     end_char       |-> char_offset,
     length         |-> current_length,
     sentence_count |-> Len(current_chunk)]

\* for sentence in sentences, then the flush of what is left.
RECURSIVE PackLoop(_, _, _, _, _, _, _)
PackLoop(sentences, k, maxc, chunks, current_chunk, current_length, char_offset) ==
    IF k > Len(sentences)
    THEN IF current_chunk # <<>>
         THEN Append(chunks, SentenceChunk(Len(chunks), current_chunk,
                                           current_length, char_offset))
         ELSE chunks
    ELSE LET sentence_len == Len(sentences[k])
             flush == ShouldFlush(current_length, sentence_len, current_chunk, maxc)
             chunks1 == IF flush
                        THEN Append(chunks, SentenceChunk(Len(chunks), current_chunk,
                                                          current_length, char_offset))
                        ELSE chunks
             cc1 == IF flush THEN <<>> ELSE current_chunk
             cl1 == IF flush THEN 0 ELSE current_length
         IN PackLoop(sentences, k + 1, maxc, chunks1,
                     Append(cc1, sentences[k]), cl1 + sentence_len,
                     char_offset + sentence_len)

ChunkBySentencesCall(text, maxc) ==
    [outcome |-> "return",
     chunks  |-> PackLoop(SplitSentences(text), 1, maxc, <<>>, <<>>, 0, 0)]

-----------------------------------------------------------------------------
(* The chunker as a state machine: construction, then calls.                *)

NoCall == [op |-> "none", text |-> <<>>, metadata |-> <<>>, max_chars |-> 0,
           outcome |-> "none", chunks |-> <<>>]

\* TextChunker.__init__: any pair is accepted.
ChunkerInit ==
    /\ chunk_size \in ChunkSizes
    /\ chunk_overlap \in ChunkOverlaps
    /\ lastCall = NoCall

\* chunker.chunk(text, metadata)
Chunk ==
    /\ lastCall.op = "none"
    /\ \E text \in Texts, metadata \in Metadatas :
        LET r == ChunkCall(text, chunk_size, chunk_overlap) IN
        /\ lastCall' = [op |-> "chunk", text |-> text, metadata |-> metadata,
                        max_chars |-> 0, outcome |-> r.outcome,
                        chunks |-> AllWithMetadata(r.chunks, metadata)]
        /\ UNCHANGED <<chunk_size, chunk_overlap, notChunker>>

\* chunker.chunk_by_sentences(text, metadata, max_chars_per_chunk = maxc)
ChunkBySentences ==
    /\ lastCall.op = "none"
    /\ \E text \in Texts, metadata \in Metadatas, maxc \in MaxCharsValues :
        LET r == ChunkBySentencesCall(text, maxc) IN
        /\ lastCall' = [op |-> "chunk_by_sentences", text |-> text,
                        metadata |-> metadata, max_chars |-> maxc,
                        outcome |-> r.outcome,
                        chunks |-> AllWithMetadata(r.chunks, metadata)]
        /\ UNCHANGED <<chunk_size, chunk_overlap, notChunker>>

\* The caller is done with the returned list; the chunker keeps no state of a call.
ChunkerReturn ==
    /\ lastCall.op # "none"
    /\ lastCall' = NoCall
    /\ UNCHANGED <<chunk_size, chunk_overlap, notChunker>>

ChunkerNext == Chunk \/ ChunkBySentences \/ ChunkerReturn

-----------------------------------------------------------------------------
(* Python dict helpers.                                                     *)

EmptyDict == <<>>

\* d.get(k, default)
GetOr(d, k, default) == IF k \in DOMAIN d THEN d[k] ELSE default

\* d.get(k) is truthy: the key is there and its value is not the empty string.
TruthyGet(d, k) == k \in DOMAIN d /\ d[k] # ""

\* A Python value that is a str (its pieces), and the value None.
Str(pieces) == [type |-> "str", value |-> pieces]

None == [type |-> "NoneType", value |-> <<>>]

\* An exception that leaves the function.
Raise(e) == [type |-> "raise", value |-> <<e>>]

-----------------------------------------------------------------------------
(* What the vector store can answer.                                        *)

MaxHits == 2
MaxMetaKeys == 2

\* The keys of a metadata map that query.py reads for reasons, and path.
MetaKeys == {"title", "artist", "album", "resolution", "duration", "format",
             "entries", "has_text", "filename_match", "path"}

\* A value that is present and empty, and one that is not.
MetaValues == {"", "x"}

\* The metadata maps with exactly n keys.
MetaMapsOfSize(n) ==
    UNION {[K -> MetaValues] : K \in {K \in SUBSET MetaKeys : Cardinality(K) = n}}

\* The lists of n metadata maps that hold k keys in all.
RECURSIVE MetaLists(_, _)
MetaLists(n, k) ==
    IF n = 0
    THEN IF k = 0 THEN {<<>>} ELSE {}
    ELSE UNION {{<<m>> \o rest : m \in MetaMapsOfSize(j), rest \in MetaLists(n - 1, k - j)} :
                   j \in 0..k}

\* results['metadatas'][0] of a store answer: at most MaxHits maps, MaxMetaKeys
\* keys in all.
StoreAnswers == UNION {MetaLists(n, k) : n \in 0..MaxHits, k \in 0..MaxMetaKeys}

Questions == {"q"}

-----------------------------------------------------------------------------
(* MediaIndexer.search and MediaIndexer._format_results                     *)

\* _format_results: one hit per id of the answer.  The id and the distance are
\* not read by the reasons and are left out of the hit.
FormatResults(metadatas) ==
    [i \in 1..Len(metadatas) |->
        [metadata |-> metadatas[i],
         path     |-> GetOr(metadatas[i], "path", "None")]]

\* A search that does not catch what the store query raises.
IndexerSearchNoCatch(d, raises, metadatas) ==
    IF d = "None" THEN <<>> ELSE FormatResults(metadatas)

\* search(): [] when db is None or when the store query raises; otherwise the
\* hits of the list of metadata maps the store returns.
IndexerSearch(d, raises, metadatas) ==
    IF d = "None"
    THEN <<>>
    ELSE IF raises
         THEN <<>>
         ELSE FormatResults(metadatas)

-----------------------------------------------------------------------------
(* LocalLLMQueryEngine._prepare_evidence                                    *)

\* meta = result.get('metadata', {}) of the i-th result.
HitMetaStale(results, i) == GetOr(results[1], "metadata", EmptyDict)

HitMeta(results, i) == GetOr(results[i], "metadata", EmptyDict)

\* The keys _prepare_evidence lists, in the order of its loop.
EvidenceKeys == <<"title", "artist", "album", "resolution", "duration", "format",
                  "entries">>

\* for key in [...]: if key in meta: reasons.append(f"{key}={meta[key]}")
RECURSIVE EvidenceKeyReasons(_, _)
EvidenceKeyReasons(meta, k) ==
    IF k > Len(EvidenceKeys)
    THEN <<>>
    ELSE (IF EvidenceKeys[k] \in DOMAIN meta
          THEN <<<<EvidenceKeys[k], "=", meta[EvidenceKeys[k]]>>>>
          ELSE <<>>)
         \o EvidenceKeyReasons(meta, k + 1)

\* The reasons list of one evidence entry.
EvidenceReasons(meta) ==
    EvidenceKeyReasons(meta, 1)
    \o (IF "has_text" \in DOMAIN meta THEN <<<<"has_text:", meta["has_text"]>>>> ELSE <<>>)

\* sep.join(strs) for strs a list of strings
RECURSIVE JoinWith(_, _)
JoinWith(sep, strs) ==
    IF strs = <<>> THEN <<>>
    ELSE IF Len(strs) = 1 THEN Head(strs)
    ELSE Head(strs) \o <<sep>> \o JoinWith(sep, Tail(strs))

\* "EVIDENCE_BASIC_ONLY" is '(基本メタデータのみ)'.
ReasonStr(reasons) ==
    IF reasons # <<>> THEN JoinWith(" | ", reasons) ELSE <<"EVIDENCE_BASIC_ONLY">>

\* One element of evidence_parts, by its interpolated values; the similarity
\* is left out.
EvidenceEntry(results, i) ==
    LET meta == HitMeta(results, i) IN
    [candidate   |-> i,
     kind        |-> GetOr(meta, "kind", "unknown"),
     path        |-> GetOr(meta, "path", "unknown"),
     reasons     |-> EvidenceReasons(meta),
     reason_str  |-> ReasonStr(EvidenceReasons(meta)),
     source_type |-> GetOr(meta, "source_type", "metadata")]

\* The evidence text, as the list of its entries (joined by newlines).
PrepareEvidence(results) == [i \in 1..Len(results) |-> EvidenceEntry(results, i)]

-----------------------------------------------------------------------------
(* LocalLLMQueryEngine._format_candidates                                   *)

\* The labels, which are in Japanese in the code:
\*   "L_FILENAME: " is 'ファイル名: ', "L_RESOLUTION: " is '解像度: ',
\*   "L_DURATION: " is '長さ: ', "L_ARTIST: " is 'アーティスト: ',
\*   "L_TITLE: " is 'タイトル: ', "L_ENTRIES: " is 'アーカイブ内容: ' and
\*   " ITEMS" is ' 件', "L_TEXT: " is '付随テキスト: '.
CandidateReasons(meta) ==
       (IF TruthyGet(meta, "filename_match")
        THEN <<<<"L_FILENAME: ", meta["filename_match"]>>>> ELSE <<>>)
    \o (IF TruthyGet(meta, "resolution")
        THEN <<<<"L_RESOLUTION: ", meta["resolution"]>>>> ELSE <<>>)
    \o (IF TruthyGet(meta, "duration")
        THEN <<<<"L_DURATION: ", meta["duration"]>>>> ELSE <<>>)
    \o (IF TruthyGet(meta, "artist")
        THEN <<<<"L_ARTIST: ", meta["artist"]>>>> ELSE <<>>)
    \o (IF TruthyGet(meta, "title")
        THEN <<<<"L_TITLE: ", meta["title"]>>>> ELSE <<>>)
    \o (IF TruthyGet(meta, "entries")
        THEN <<<<"L_ENTRIES: ", meta["entries"], " ITEMS">>>> ELSE <<>>)
    \o (IF TruthyGet(meta, "has_text")
        THEN <<<<"L_TEXT: ", meta["has_text"]>>>> ELSE <<>>)

\* One candidate dict; the similarity is left out.
Candidate(results, i) ==
    LET meta == HitMeta(results, i) IN
    [path        |-> GetOr(meta, "path", "unknown"),
     kind        |-> GetOr(meta, "kind", "unknown"),
     size        |-> GetOr(meta, "size", "unknown"),
     mtime       |-> GetOr(meta, "mtime", "unknown"),
     reasons     |-> CandidateReasons(meta),
     source_type |-> GetOr(meta, "source_type", "metadata")]

FormatCandidates(results) == [i \in 1..Len(results) |-> Candidate(results, i)]

-----------------------------------------------------------------------------
(* LocalLLMQueryEngine._call_llm                                            *)

\* self.ollama_url
OllamaUrl == "http://localhost:11434"

\* What requests.post and response.json() can do.  The bodies of a 200:
\*   "response_str"   a JSON object whose response is a string,
\*   "response_null"  a JSON object whose response is null,
\*   "no_response"    a JSON object without the key response,
\*   "not_object"     JSON that is no object (result.get raises AttributeError),
\*   "not_json"       no JSON (response.json() raises a ValueError).
HttpOutcomes ==
    {[kind |-> "response", status |-> "200", body |-> b] :
        b \in {"response_str", "response_null", "no_response", "not_object", "not_json"}}
    \cup {[kind |-> "response", status |-> "500", body |-> "not_json"]}
    \cup {[kind |-> k, status |-> "none", body |-> "none"] :
             k \in {"ConnectionError", "Timeout", "OtherException"}}

NoHttp == [kind |-> "none", status |-> "none", body |-> "none"]

\* except Exception as e: return f"エラーが発生しました：{str(e)}"
\* ("MSG_ERROR_OCCURRED: " is 'エラーが発生しました：')
OtherExceptionPropagates(e) == Raise(e)

HandleOtherException(e) == Str(<<"MSG_ERROR_OCCURRED: ", e>>)

\* The try block on a response: status 200 reads the JSON body.
\* "MSG_NO_ANSWER" is '回答を生成できませんでした。', "MSG_LLM_ERROR: " is 'LLM エラー: '.
OnResponse(o) ==
    IF o.status = "200"
    THEN CASE o.body = "response_str"  -> Str(<<"LLM_TEXT">>)
           [] o.body = "response_null" -> None
           [] o.body = "no_response"   -> Str(<<"MSG_NO_ANSWER">>)
           [] o.body = "not_object"    -> HandleOtherException("AttributeError")
           [] o.body = "not_json"      -> HandleOtherException("JSONDecodeError")
    ELSE Str(<<"MSG_LLM_ERROR: ", o.status>>)

\* _call_llm.  "MSG_REQUESTS_REQUIRED" is 'requests ライブラリが必要です。...',
\* "MSG_CANNOT_CONNECT" is 'Ollama に接続できません。確認してください：',
\* "MSG_TIMEOUT" is 'LLM のレスポンスがタイムアウトしました。'.
CallLLM(available, o) ==
    IF ~available
    THEN Str(<<"MSG_REQUESTS_REQUIRED">>)
    ELSE CASE o.kind = "response"        -> OnResponse(o)
           [] o.kind = "ConnectionError" -> Str(<<"MSG_CANNOT_CONNECT", OllamaUrl>>)
           [] o.kind = "Timeout"         -> Str(<<"MSG_TIMEOUT">>)
           [] o.kind = "OtherException"  -> HandleOtherException("Exception")

-----------------------------------------------------------------------------
(* LocalLLMQueryEngine.query, step by step.                                 *)

NoResult == EmptyDict

\* "MSG_NOT_INITIALIZED" is '申し訳ありません。システムが初期化されていません。'
IndexUnavailableResult ==
    [error  |-> "Indexer not initialized",
     answer |-> Str(<<"MSG_NOT_INITIALIZED">>)]

\* "MSG_NOT_FOUND" is '指定の条件に合うファイルが見つかりません。'
NotFoundResult(q) ==
    [question   |-> q,
     answer     |-> Str(<<"MSG_NOT_FOUND">>),
     candidates |-> <<>>]

\* The result of a query that called the explainer.
AnsweredResultDropsOnFailure(q, response, results) ==
    [question             |-> q,
     answer               |-> response,
     candidates           |-> IF response = Str(<<"LLM_TEXT">>)
                              THEN FormatCandidates(results) ELSE <<>>,
     search_results_count |-> Len(results)]

AnsweredResult(q, response, results) ==
    [question             |-> q,
     answer               |-> response,
     candidates           |-> FormatCandidates(results),
     search_results_count |-> Len(results)]

\* if not search_results
NoHitsNeverTaken(results) == FALSE

NoHits(results) == results = <<>>

\* LocalLLMQueryEngine.__init__: self.indexer = None; no query is running.
QueryInit ==
    /\ indexer = "None"
    /\ db = "None"
    /\ requests_available \in BOOLEAN
    /\ qpc = "Idle"
    /\ question = ""
    /\ search_results = <<>>
    /\ evidence = <<>>
    /\ http = NoHttp
    /\ llm_response = None
    /\ result = NoResult
    /\ searches = 0
    /\ llm_calls = 0

\* set_indexer(indexer), between two queries; the indexer's db is None when
\* chromadb is missing.
SetIndexer ==
    /\ qpc = "Idle"
    /\ indexer = "None"
    /\ indexer' = "MediaIndexer"
    /\ db' \in {"None", "Client"}
    /\ UNCHANGED <<requests_available, qpc, question, search_results, evidence,
                   http, llm_response, result, searches, llm_calls, notQuery>>

\* query(question): if not self.indexer, return the error dict.
QueryStart ==
    /\ qpc = "Idle"
    /\ \E q \in Questions :
        /\ question' = q
        /\ IF indexer = "None"
           THEN /\ qpc' = "IndexUnavailable"
                /\ result' = IndexUnavailableResult
           ELSE /\ qpc' = "Searching"
                /\ UNCHANGED result
        /\ UNCHANGED <<indexer, db, requests_available, search_results, evidence,
                       http, llm_response, searches, llm_calls, notQuery>>

\* search_results = self.indexer.search(question, top_k)
Search ==
    /\ qpc = "Searching"
    /\ \E raises \in BOOLEAN, metadatas \in StoreAnswers :
        /\ search_results' = IndexerSearch(db, raises, metadatas)
        /\ searches' = searches + 1
        /\ qpc' = IF NoHits(search_results') THEN "NoResults" ELSE "HasResults"
        /\ UNCHANGED <<indexer, db, requests_available, question, evidence, http,
                       llm_response, result, llm_calls, notQuery>>

\* if not search_results: return the not-found dict
ReturnNotFound ==
    /\ qpc = "NoResults"
    /\ result' = NotFoundResult(question)
    /\ qpc' = "Answered"
    /\ UNCHANGED <<indexer, db, requests_available, question, search_results,
                   evidence, http, llm_response, searches, llm_calls, notQuery>>

\* evidence = self._prepare_evidence(search_results)
Prepare ==
    /\ qpc = "HasResults"
    /\ evidence' = PrepareEvidence(search_results)
    /\ qpc' = "Explaining"
    /\ UNCHANGED <<indexer, db, requests_available, question, search_results,
                   http, llm_response, result, searches, llm_calls, notQuery>>

\* What query() does with the outcome r of _call_llm: the return of the result
\* dict; an exception that leaves _call_llm leaves query() too.
Explained(r) ==
    /\ llm_calls' = llm_calls + 1
    /\ IF r.type = "raise"
       THEN /\ qpc' = "Raised"
            /\ UNCHANGED <<llm_response, result>>
       ELSE /\ qpc' = "Answered"
            /\ llm_response' = r
            /\ result' = AnsweredResult(question, r, search_results)
    /\ UNCHANGED <<indexer, db, requests_available, question, search_results,
                   evidence, searches, notQuery>>

\* llm_response = self._call_llm(...) with the requests library: one HTTP call.
Explain ==
    /\ qpc = "Explaining"
    /\ requests_available
    /\ \E o \in HttpOutcomes :
        /\ http' = o
        /\ Explained(CallLLM(requests_available, o))

\* llm_response = self._call_llm(...) without the requests library: no HTTP call.
ExplainWithoutRequests ==
    /\ qpc = "Explaining"
    /\ ~requests_available
    /\ http' = NoHttp
    /\ Explained(CallLLM(requests_available, NoHttp))

\* The caller has the result; the engine is ready for the next query.
QueryReturn ==
    /\ qpc \in {"Answered", "IndexUnavailable"}
    /\ qpc' = "Idle"
    /\ question' = ""
    /\ search_results' = <<>>
    /\ evidence' = <<>>
    /\ http' = NoHttp
    /\ llm_response' = None
    /\ result' = NoResult
    /\ searches' = 0
    /\ llm_calls' = 0
    /\ UNCHANGED <<indexer, db, requests_available, notQuery>>

QueryNext ==
    \/ SetIndexer
    \/ QueryStart
    \/ Search
    \/ ReturnNotFound
    \/ Prepare
    \/ Explain
    \/ ExplainWithoutRequests
    \/ QueryReturn

-----------------------------------------------------------------------------
(* The records _create_document is given.                                   *)

MaxTextSources == 2

\* f \cup g for dicts with disjoint keys.
Merge(f, g) == [k \in DOMAIN f \cup DOMAIN g |-> IF k \in DOMAIN f THEN f[k] ELSE g[k]]

\* {k: v}
Entry(k, v) == [x \in {k} |-> v]

\* v is truthy, for a scalar by its rendering: None, '', 0 and 0.0 are falsy.
Truthy(v) == v \notin {"None", "", "0", "0.0"}

\* d.get(k) is truthy, for a key whose value is a scalar.
TruthyField(d, k) == k \in DOMAIN d /\ Truthy(d[k])

SourceTypes == {"subtitle", "note", "meta"}

\* The lists of text sources: at most MaxTextSources, each with its source_type.
TextSourceLists ==
    UNION {[1..n -> {[source_type |-> t] : t \in SourceTypes}] : n \in 0..MaxTextSources}

\* No key text_sources, or one of the lists.
TextSourceParts ==
    {EmptyDict} \cup {Entry("text_sources", ts) : ts \in TextSourceLists}

\* name, path and size: all there (as scanner.py writes them) or all missing.
GenericParts ==
    {EmptyDict, [name |-> "sample.mp4", path |-> "/media/sample.mp4", size |-> "1024000"]}

\* video_meta['video'] as meta_video_audio.py writes it: all keys, None for
\* what the probe did not give.
VideoStreams ==
    {[codec |-> c.codec, width |-> w, height |-> h, fps |-> c.fps, bitrate |-> "None"] :
        w \in {"None", "1920"}, h \in {"None", "1080"},
        c \in {[codec |-> "None", fps |-> "None"], [codec |-> "h264", fps |-> "30.0"]}}

\* tags: no tags (an empty dict), all None, a title alone, or all given.
TagDicts ==
    {EmptyDict,
     [title |-> "None", artist |-> "None", album |-> "None"],
     [title |-> "Sample Video", artist |-> "None", album |-> "None"],
     [title |-> "Sample Video", artist |-> "Creator", album |-> "Album"]}

VideoMetas ==
    {Merge(Merge(d, v), t) :
        d \in {EmptyDict, Entry("duration_sec", "3600.0")},
        v \in {EmptyDict} \cup {Entry("video", x) : x \in VideoStreams},
        t \in {EmptyDict} \cup {Entry("tags", x) : x \in TagDicts}}

ImageMetas ==
    {Merge(Merge(Merge(w, h), f), e) :
        w \in {EmptyDict, Entry("width", "None"), Entry("width", "1920")},
        h \in {EmptyDict, Entry("height", "1080")},
        f \in {EmptyDict, Entry("format", "JPEG")},
        e \in {EmptyDict, Entry("exif", EmptyDict),
               Entry("exif", [DateTime |-> "2024:01:01 00:00:00", Model |-> "X100"])}}

AudioMetas ==
    {Merge(d, t) :
        d \in {EmptyDict, Entry("duration_sec", "None"), Entry("duration_sec", "180.5")},
        t \in {EmptyDict} \cup {Entry("tags", x) : x \in TagDicts}}

ArchiveEntryLists == {<<>>, <<[name |-> "a.txt"], [name |-> "dir/b.txt"]>>}

ArchiveMetas ==
    {Merge(Merge(c, e), [format |-> ".zip"]) :
        c \in {EmptyDict, Entry("entry_count", "2")},
        e \in {EmptyDict} \cup {Entry("entries", x) : x \in ArchiveEntryLists}}

\* One metadata fragment of each kind, for records that carry fragments of
\* other kinds than their own.
SampleFragments ==
    [video_meta   |-> [duration_sec |-> "3600.0",
                       video |-> [codec |-> "h264", width |-> "1920", height |-> "1080",
                                  fps |-> "30.0", bitrate |-> "None"],
                       tags |-> [title |-> "Sample Video", artist |-> "Creator",
                                 album |-> "Album"]],
     image_meta   |-> [width |-> "1920", height |-> "1080", format |-> "JPEG"],
     audio_meta   |-> [duration_sec |-> "180.5",
                       tags |-> [title |-> "Sample Video", artist |-> "Creator",
                                 album |-> "Album"]],
     archive_meta |-> [entry_count |-> "2", format |-> ".zip",
                       entries |-> <<[name |-> "a.txt"], [name |-> "dir/b.txt"]>>]]

MetaKeyOfKind == [video |-> "video_meta", image |-> "image_meta",
                  audio |-> "audio_meta", archive |-> "archive_meta"]

\* kind and the fragments: a record of a kind with its own fragment in every
\* shape, and a record of any kind (or without kind) with any set of sample
\* fragments, its own missing or not.
KindParts ==
         {Merge([kind |-> "video"], Entry("video_meta", m)) : m \in VideoMetas}
    \cup {Merge([kind |-> "image"], Entry("image_meta", m)) : m \in ImageMetas}
    \cup {Merge([kind |-> "audio"], Entry("audio_meta", m)) : m \in AudioMetas}
    \cup {Merge([kind |-> "archive"], Entry("archive_meta", m)) : m \in ArchiveMetas}
    \cup {Merge(k, [f \in F |-> SampleFragments[f]]) :
             k \in {EmptyDict} \cup {Entry("kind", x) :
                                        x \in {"video", "image", "audio", "archive", "unknown"}},
             F \in SUBSET DOMAIN SampleFragments}

Records ==
    {Merge(Merge(g, k), t) : g \in GenericParts, k \in KindParts, t \in TextSourceParts}

-----------------------------------------------------------------------------
(* MediaIndexer._create_document                                            *)

\* The elements of a list, as a set.
Range(seq) == {seq[i] : i \in 1..Len(seq)}

\* The iteration orders of a set of strings a process can have: the order is
\* fixed by the hashes of the strings, which the process draws when it starts.
HashSeeds == {p \in [1..Cardinality(SourceTypes) -> SourceTypes] : Range(p) = SourceTypes}

\* list(set(items)) in a process with string hashing seed.
SetOrder(items, seed) == SelectSeq(seed, LAMBDA t : t \in Range(items))

\* The pieces of a list of plain strings, each a string of one piece.
Pieces(strs) == [i \in 1..Len(strs) |-> <<strs[i]>>]

\* A branch test that looks at the fragment alone, not at the kind.
HasMetaOfKind(meta, kind) == MetaKeyOfKind[kind] \in DOMAIN meta

\* meta.get('kind') == 'video' and 'video_meta' in meta, and the like
IsKindWithMeta(meta, kind) ==
    GetOr(meta, "kind", "None") = kind /\ MetaKeyOfKind[kind] \in DOMAIN meta

\* The parts of the 基本情報 block.
GenericDocParts(meta) ==
    << <<"type: ", GetOr(meta, "kind", "unknown")>>,
       <<"name: ", GetOr(meta, "name", "")>>,
       <<"path: ", GetOr(meta, "path", "")>>,
       <<"size: ", GetOr(meta, "size", "0"), " bytes">> >>

\* The parts of the video branch.
VideoDocParts(vmeta) ==
       (IF "duration_sec" \in DOMAIN vmeta
        THEN << <<"duration: ", vmeta["duration_sec"], " seconds">> >> ELSE <<>>)
    \o (IF "video" \in DOMAIN vmeta
        THEN LET v == vmeta["video"] IN
                (IF TruthyField(v, "width") /\ TruthyField(v, "height")
                 THEN << <<"resolution: ", v["width"], "x", v["height"]>> >> ELSE <<>>)
             \o (IF TruthyField(v, "fps") THEN << <<"fps: ", v["fps"]>> >> ELSE <<>>)
             \o (IF TruthyField(v, "codec") THEN << <<"codec: ", v["codec"]>> >> ELSE <<>>)
        ELSE <<>>)
    \o (IF "tags" \in DOMAIN vmeta /\ vmeta["tags"] # EmptyDict
        THEN LET t == vmeta["tags"] IN
                (IF TruthyField(t, "title") THEN << <<"title: ", t["title"]>> >> ELSE <<>>)
             \o (IF TruthyField(t, "artist") THEN << <<"artist: ", t["artist"]>> >> ELSE <<>>)
        ELSE <<>>)

\* The parts of the image branch.
ImageDocParts(imeta) ==
       (IF TruthyField(imeta, "width") /\ TruthyField(imeta, "height")
        THEN << <<"resolution: ", imeta["width"], "x", imeta["height"]>> >> ELSE <<>>)
    \o (IF TruthyField(imeta, "format")
        THEN << <<"format: ", imeta["format"]>> >> ELSE <<>>)
    \o (IF "exif" \in DOMAIN imeta
        THEN LET e == imeta["exif"] IN
                (IF "DateTime" \in DOMAIN e THEN << <<"date: ", e["DateTime"]>> >> ELSE <<>>)
             \o (IF "Model" \in DOMAIN e THEN << <<"camera: ", e["Model"]>> >> ELSE <<>>)
        ELSE <<>>)

\* The parts of the audio branch.
AudioDocParts(ameta) ==
       (IF "duration_sec" \in DOMAIN ameta
        THEN << <<"duration: ", ameta["duration_sec"], " seconds">> >> ELSE <<>>)
    \o (IF "tags" \in DOMAIN ameta /\ ameta["tags"] # EmptyDict
        THEN LET t == ameta["tags"] IN
                (IF TruthyField(t, "title") THEN << <<"title: ", t["title"]>> >> ELSE <<>>)
             \o (IF TruthyField(t, "artist") THEN << <<"artist: ", t["artist"]>> >> ELSE <<>>)
             \o (IF TruthyField(t, "album") THEN << <<"album: ", t["album"]>> >> ELSE <<>>)
        ELSE <<>>)

\* The parts of the archive branch: the count, then the names of the first
\* ten entries.
ArchiveDocParts(ameta) ==
       << <<"contains: ", GetOr(ameta, "entry_count", "0"), " items">> >>
    \o (IF "entries" \in DOMAIN ameta
        THEN << <<"entries: ">>
                \o JoinWith(", ", Pieces([i \in 1..Min(10, Len(ameta["entries"])) |->
                                             ameta["entries"][i]["name"]])) >>
        ELSE <<>>)

\* The if / elif chain over the kinds.
KindDocParts(meta) ==
    IF IsKindWithMeta(meta, "video") THEN VideoDocParts(meta["video_meta"])
    ELSE IF IsKindWithMeta(meta, "image") THEN ImageDocParts(meta["image_meta"])
    ELSE IF IsKindWithMeta(meta, "audio") THEN AudioDocParts(meta["audio_meta"])
    ELSE IF IsKindWithMeta(meta, "archive") THEN ArchiveDocParts(meta["archive_meta"])
    ELSE <<>>

\* The 付随テキスト block: ', '.join(set(source_types)).
TextDocParts(meta, seed) ==
    IF "text_sources" \in DOMAIN meta /\ meta["text_sources"] # <<>>
    THEN LET source_types == [i \in 1..Len(meta["text_sources"]) |->
                                 meta["text_sources"][i]["source_type"]]
         IN << <<"has_text: ">> \o JoinWith(", ", Pieces(SetOrder(source_types, seed))) >>
    ELSE <<>>

\* parts, as _create_document has it before the join.
DocParts(meta, seed) ==
    GenericDocParts(meta) \o KindDocParts(meta) \o TextDocParts(meta, seed)

\* _create_document(meta) in a process with string hashing seed.
CreateDocument(meta, seed) == JoinWith(" | ", DocParts(meta, seed))

-----------------------------------------------------------------------------
(* MediaIndexer._extract_metadata                                           *)

\* f"{w}x{h}" as one string, for the widths and heights of the model.
ResolutionText(w, h) ==
    CASE w = "1920" /\ h = "1080" -> "1920x1080"
      [] w = "1920" /\ h = "None" -> "1920xNone"
      [] OTHER -> "x"

\* ','.join(types) as one string, for a list of distinct source types.
CommaJoined(types) ==
    CASE types = <<"subtitle">> -> "subtitle"
      [] types = <<"note">> -> "note"
      [] types = <<"meta">> -> "meta"
      [] types = <<"subtitle", "note">> -> "subtitle,note"
      [] types = <<"note", "subtitle">> -> "note,subtitle"
      [] types = <<"subtitle", "meta">> -> "subtitle,meta"
      [] types = <<"meta", "subtitle">> -> "meta,subtitle"
      [] types = <<"note", "meta">> -> "note,meta"
      [] types = <<"meta", "note">> -> "meta,note"
      [] types = <<"subtitle", "note", "meta">> -> "subtitle,note,meta"
      [] types = <<"subtitle", "meta", "note">> -> "subtitle,meta,note"
      [] types = <<"note", "subtitle", "meta">> -> "note,subtitle,meta"
      [] types = <<"note", "meta", "subtitle">> -> "note,meta,subtitle"
      [] types = <<"meta", "subtitle", "note">> -> "meta,subtitle,note"
      [] types = <<"meta", "note", "subtitle">> -> "meta,note,subtitle"
      [] OTHER -> ""

\* The keys every result has.
BasicMetadata(meta) ==
    [kind        |-> GetOr(meta, "kind", "unknown"),
     path        |-> GetOr(meta, "path", ""),
     size        |-> GetOr(meta, "size", "0"),
     mtime       |-> GetOr(meta, "mtime", ""),
     source_type |-> "metadata"]

\* The keys the video branch adds.
VideoMetadata(vmeta) ==
    Merge(Merge(Merge(
        IF "video" \in DOMAIN vmeta /\ TruthyField(vmeta["video"], "width")
        THEN Entry("resolution",
                   ResolutionText(vmeta["video"]["width"], vmeta["video"]["height"]))
        ELSE EmptyDict,
        IF "duration_sec" \in DOMAIN vmeta
        THEN Entry("duration", vmeta["duration_sec"]) ELSE EmptyDict),
        IF "tags" \in DOMAIN vmeta /\ vmeta["tags"] # EmptyDict
           /\ TruthyField(vmeta["tags"], "title")
        THEN Entry("title", vmeta["tags"]["title"]) ELSE EmptyDict),
        IF "tags" \in DOMAIN vmeta /\ vmeta["tags"] # EmptyDict
           /\ TruthyField(vmeta["tags"], "artist")
        THEN Entry("artist", vmeta["tags"]["artist"]) ELSE EmptyDict)

\* The keys the image branch adds.
ImageMetadata(imeta) ==
    Merge(
        IF TruthyField(imeta, "width")
        THEN Entry("resolution", ResolutionText(imeta["width"], imeta["height"]))
        ELSE EmptyDict,
        IF TruthyField(imeta, "format")
        THEN Entry("format", imeta["format"]) ELSE EmptyDict)

\* The keys the audio branch adds.
AudioMetadata(ameta) ==
    Merge(Merge(
        IF "duration_sec" \in DOMAIN ameta
        THEN Entry("duration", ameta["duration_sec"]) ELSE EmptyDict,
        IF "tags" \in DOMAIN ameta /\ ameta["tags"] # EmptyDict
           /\ TruthyField(ameta["tags"], "title")
        THEN Entry("title", ameta["tags"]["title"]) ELSE EmptyDict),
        IF "tags" \in DOMAIN ameta /\ ameta["tags"] # EmptyDict
           /\ TruthyField(ameta["tags"], "artist")
        THEN Entry("artist", ameta["tags"]["artist"]) ELSE EmptyDict)

\* The keys the archive branch adds.
ArchiveMetadata(ameta) ==
    [entries |-> GetOr(ameta, "entry_count", "0"),
     format  |-> GetOr(ameta, "format", "unknown")]

\* The if / elif chain over the kinds.
KindMetadata(meta) ==
    IF IsKindWithMeta(meta, "video") THEN VideoMetadata(meta["video_meta"])
    ELSE IF IsKindWithMeta(meta, "image") THEN ImageMetadata(meta["image_meta"])
    ELSE IF IsKindWithMeta(meta, "audio") THEN AudioMetadata(meta["audio_meta"])
    ELSE IF IsKindWithMeta(meta, "archive") THEN ArchiveMetadata(meta["archive_meta"])
    ELSE EmptyDict

\* has_text: ','.join(set(text_types)).
TextMetadata(meta, seed) ==
    IF "text_sources" \in DOMAIN meta /\ meta["text_sources"] # <<>>
    THEN LET text_types == [i \in 1..Len(meta["text_sources"]) |->
                               GetOr(meta["text_sources"][i], "source_type", "unknown")]
         IN Entry("has_text", CommaJoined(SetOrder(text_types, seed)))
    ELSE EmptyDict

\* _extract_metadata(meta) in a process with string hashing seed, when it
\* returns.  The keys of the three parts are disjoint.
ExtractMetadata(meta, seed) ==
    Merge(Merge(BasicMetadata(meta), KindMetadata(meta)), TextMetadata(meta, seed))

\* _extract_metadata(meta) raises: a width without the key height.
MetadataRaises(meta) ==
    \/ /\ IsKindWithMeta(meta, "video")
       /\ "video" \in DOMAIN meta["video_meta"]
       /\ TruthyField(meta["video_meta"]["video"], "width")
       /\ "height" \notin DOMAIN meta["video_meta"]["video"]
    \/ /\ IsKindWithMeta(meta, "image")
       /\ TruthyField(meta["image_meta"], "width")
       /\ "height" \notin DOMAIN meta["image_meta"]

\* _create_document(meta) raises: a text source without the key source_type,
\* or an archive entry without the key name.
DocumentRaises(meta) ==
    \/ /\ "text_sources" \in DOMAIN meta
       /\ \E i \in 1..Len(meta["text_sources"]) :
              "source_type" \notin DOMAIN meta["text_sources"][i]
    \/ /\ IsKindWithMeta(meta, "archive")
       /\ "entries" \in DOMAIN meta["archive_meta"]
       /\ \E i \in 1..Min(10, Len(meta["archive_meta"]["entries"])) :
              "name" \notin DOMAIN meta["archive_meta"]["entries"][i]

-----------------------------------------------------------------------------
(* Calls of _create_document, in one interpreter process or in two.         *)

NoRecord == EmptyDict

\* The outcome of _extract_metadata: it raises, or returns a dictionary.
MetadataResult(meta, seed) ==
    IF MetadataRaises(meta) THEN [raised |-> TRUE, dict |-> EmptyDict]
    ELSE [raised |-> FALSE, dict |-> ExtractMetadata(meta, seed)]

NoMetadata == [raised |-> FALSE, dict |-> EmptyDict]

\* A process has started; no document has been built.
DocInit ==
    /\ hashseed \in HashSeeds
    /\ doc_record = NoRecord
    /\ doc_runs = <<>>
    /\ doc_metadata = NoMetadata

\* _create_document(meta) and _extract_metadata(meta): the first calls on a
\* record, as index_metadata makes them.
CreateFirst ==
    /\ doc_runs = <<>>
    /\ \E meta \in Records :
        /\ doc_record' = meta
        /\ doc_runs' = <<CreateDocument(meta, hashseed)>>
        /\ doc_metadata' = MetadataResult(meta, hashseed)
    /\ UNCHANGED <<hashseed, notDoc>>

\* _create_document(meta) again, on an identical record.
CreateAgain ==
    /\ Len(doc_runs) = 1
    /\ doc_runs' = Append(doc_runs, CreateDocument(doc_record, hashseed))
    /\ UNCHANGED <<hashseed, doc_record, doc_metadata, notDoc>>

\* The program is started again (the record is read back from the exported
\* metadata): a new process draws its string hashing anew.
RestartProcess ==
    /\ Len(doc_runs) = 1
    /\ hashseed' \in HashSeeds
    /\ UNCHANGED <<doc_record, doc_runs, doc_metadata, notDoc>>

\* The two documents have been compared; on to another record.
DocDone ==
    /\ Len(doc_runs) = 2
    /\ doc_record' = NoRecord
    /\ doc_runs' = <<>>
    /\ doc_metadata' = NoMetadata
    /\ UNCHANGED <<hashseed, notDoc>>

DocNext == CreateFirst \/ CreateAgain \/ RestartProcess \/ DocDone

-----------------------------------------------------------------------------
(* MediaIndexer.index_metadata and MediaIndexer.search on one indexer.      *)

MaxBatch == 3

MaxStore == 3

\* The sample record of indexer.py, with a subtitle and a note beside it.
SampleVideoRecord ==
    [path |-> "/media/sample.mp4", name |-> "sample.mp4", size |-> "1024000",
     mtime |-> "2024-01-01T00:00:00", kind |-> "video",
     video_meta |-> SampleFragments["video_meta"],
     text_sources |-> <<[source_type |-> "subtitle"], [source_type |-> "note"]>>]

\* An audio record with its fragment.
SampleAudioRecord ==
    [path |-> "/media/song.mp3", name |-> "song.mp3", size |-> "2048",
     mtime |-> "2024-01-01T00:00:00", kind |-> "audio",
     audio_meta |-> SampleFragments["audio_meta"]]

\* A record _create_document raises on: a text source without source_type.
UntypedSourceRecord ==
    [path |-> "/media/clip.mp4", name |-> "clip.mp4", size |-> "10",
     mtime |-> "2024-01-01T00:00:00", kind |-> "video",
     text_sources |-> <<[filename |-> "clip.txt"]>>]

\* A record _extract_metadata raises on: an image with a width and no height.
WidthOnlyRecord ==
    [path |-> "/media/photo.jpg", name |-> "photo.jpg", size |-> "512",
     mtime |-> "2024-01-01T00:00:00", kind |-> "image",
     image_meta |-> [width |-> "1920", format |-> "JPEG"]]

BatchRecords == {SampleVideoRecord, SampleAudioRecord, UntypedSourceRecord, WidthOnlyRecord}

\* The batches: lists of at most MaxBatch records.
Batches == UNION {[1..n -> BatchRecords] : n \in 0..MaxBatch}

\* ids=[f"media_{i}"], i counted from 0.
MediaId(i) == <<"media_", i - 1>>

\* What one add hands to the store.
StoreEntry(meta, i, seed) ==
    [id       |-> MediaId(i),
     document |-> CreateDocument(meta, seed),
     metadata |-> ExtractMetadata(meta, seed)]

NoSearch == [called |-> FALSE, store_raised |-> FALSE, results |-> <<>>,
             candidates |-> <<>>]

\* A loop that a failing record ends.
StopAtFailure(i, n, failed) == IF failed THEN n + 1 ELSE i + 1

\* enumerate(metadata_list): after a record, failed or not, comes the next.
AfterRecord(i, n, failed) == i + 1

\* A persist after which the store is flushed once more.
PersistTwice(calls) == calls \o <<<<"persist", 0>>, <<"persist", 0>>>>

\* self.db.persist(), as the calls made on the store record it.
PersistCall(calls) == Append(calls, <<"persist", 0>>)

\* MediaIndexer(): db is a client of an empty store, or None without chromadb.
IndexerInit ==
    /\ chromadb_available \in BOOLEAN
    /\ unique_ids \in (IF chromadb_available THEN BOOLEAN ELSE {FALSE})
    /\ store = <<>>
    /\ ipc = "idle"
    /\ metadata_list = <<>>
    /\ idx = 0
    /\ store_calls = <<>>
    /\ add_raised = {}
    /\ index_warnings = {}
    /\ hits = NoSearch

\* index_metadata(metadata_list): the entry, which returns at once without
\* chromadb.
IndexStart ==
    /\ ipc = "idle"
    /\ ~hits.called
    /\ \E batch \in Batches :
        /\ Len(store) + Len(batch) <= MaxStore
        /\ metadata_list' = batch
    /\ ipc' = IF chromadb_available THEN "loop" ELSE "returned"
    /\ idx' = 1
    /\ store_calls' = <<>>
    /\ add_raised' = {}
    /\ index_warnings' = {}
    /\ UNCHANGED <<chromadb_available, unique_ids, store, hits, hashseed, notIndexer>>

\* The ids of the documents the store holds.
StoredIds == {store[k].id : k \in 1..Len(store)}

\* What self.db.add can do with an id: any add may raise; an add under an id
\* the store already holds is taken as one more document by a build of the
\* duckdb+parquet store that does not look at the ids, and raises in one
\* that does.
AddOutcomes(id) ==
    IF unique_ids /\ id \in StoredIds THEN {"raises"} ELSE {"added", "raises"}

\* One turn of the loop: the document, the metadata and the add, inside the
\* try; whatever raises is logged as a warning and the loop goes on.
IndexRecord ==
    /\ ipc = "loop"
    /\ idx <= Len(metadata_list)
    /\ LET meta == metadata_list[idx]
           n == Len(metadata_list)
       IN
       IF DocumentRaises(meta) \/ MetadataRaises(meta)
       THEN /\ index_warnings' = index_warnings \cup {idx}
            /\ idx' = AfterRecord(idx, n, TRUE)
            /\ UNCHANGED <<store, store_calls, add_raised>>
       ELSE \E outcome \in AddOutcomes(MediaId(idx)) :
            LET raises == outcome = "raises" IN
            /\ store_calls' = Append(store_calls, <<"add", idx>>)
            /\ idx' = AfterRecord(idx, n, raises)
            /\ IF raises
               THEN /\ add_raised' = add_raised \cup {idx}
                    /\ index_warnings' = index_warnings \cup {idx}
                    /\ UNCHANGED store
               ELSE /\ store' = Append(store, StoreEntry(meta, idx, hashseed))
                    /\ UNCHANGED <<add_raised, index_warnings>>
    /\ UNCHANGED <<chromadb_available, unique_ids, ipc, metadata_list, hits, hashseed,
                   notIndexer>>

\* After the loop: self.db.persist(), which is outside the try.
Persist ==
    /\ ipc = "loop"
    /\ idx > Len(metadata_list)
    /\ store_calls' = PersistCall(store_calls)
    /\ \E raises \in BOOLEAN : ipc' = IF raises THEN "raised" ELSE "returned"
    /\ UNCHANGED <<chromadb_available, unique_ids, store, metadata_list, idx, add_raised,
                   index_warnings, hits, hashseed, notIndexer>>

\* The caller has the outcome of index_metadata.
IndexReturn ==
    /\ ipc \in {"returned", "raised"}
    /\ ipc' = "idle"
    /\ metadata_list' = <<>>
    /\ idx' = 0
    /\ store_calls' = <<>>
    /\ add_raised' = {}
    /\ index_warnings' = {}
    /\ UNCHANGED <<chromadb_available, unique_ids, store, hits, hashseed, notIndexer>>

\* The entries at the positions sel, in the order of the store.
RECURSIVE Selected(_, _, _)
Selected(entries, sel, i) ==
    IF i > Len(entries) THEN <<>>
    ELSE (IF i \in sel THEN <<entries[i].metadata>> ELSE <<>>) \o Selected(entries, sel, i + 1)

\* search(query, top_k) on the indexer, and the candidates the query engine
\* makes of the hits.  The store answers with at most MaxHits of its entries
\* or raises.
IndexerSearchCall ==
    /\ ipc = "idle"
    /\ ~hits.called
    /\ \E raises \in BOOLEAN :
       \E sel \in {x \in SUBSET (1..Len(store)) : Cardinality(x) <= MaxHits} :
        LET results == IndexerSearch(IF chromadb_available THEN "Client" ELSE "None",
                                     raises, Selected(store, sel, 1))
        IN hits' = [called |-> TRUE, store_raised |-> raises, results |-> results,
                    candidates |-> FormatCandidates(results)]
    /\ UNCHANGED <<chromadb_available, unique_ids, store, ipc, metadata_list, idx, store_calls,
                   add_raised, index_warnings, hashseed, notIndexer>>

\* The caller has the hits and the candidates.
IndexerSearchReturn ==
    /\ hits.called
    /\ hits' = NoSearch
    /\ UNCHANGED <<chromadb_available, unique_ids, store, ipc, metadata_list, idx, store_calls,
                   add_raised, index_warnings, hashseed, notIndexer>>

\* search(query, top_k) called from another thread while index_metadata is in
\* its loop: neither method takes a lock, so the call goes to the store as
\* it is after the adds made so far.
SearchDuringIndexing ==
    /\ ipc = "loop"
    /\ ~hits.called
    /\ \E raises \in BOOLEAN :
       \E sel \in {x \in SUBSET (1..Len(store)) : Cardinality(x) <= MaxHits} :
        LET results == IndexerSearch("Client", raises, Selected(store, sel, 1))
        IN hits' = [called |-> TRUE, store_raised |-> raises, results |-> results,
                    candidates |-> FormatCandidates(results)]
    /\ UNCHANGED <<chromadb_available, unique_ids, store, ipc, metadata_list, idx, store_calls,
                   add_raised, index_warnings, hashseed, notIndexer>>

\* The indexer with a second thread that searches.
ConcurrentNext ==
    \/ IndexStart
    \/ IndexRecord
    \/ Persist
    \/ IndexReturn
    \/ IndexerSearchCall
    \/ IndexerSearchReturn
    \/ SearchDuringIndexing

IndexerNext ==
    \/ IndexStart
    \/ IndexRecord
    \/ Persist
    \/ IndexReturn
    \/ IndexerSearchCall
    \/ IndexerSearchReturn

-----------------------------------------------------------------------------
(* ArchiveListExtractor (archive_list.py)                                   *)
(* A string the code builds from values of different kinds is a sequence    *)
(* of pieces that are records: [lit |-> ...] for the literal text,          *)
(* [name |-> ...] for an entry name, [num |-> ...] for a number.            *)

MaxEntries == 3

MaxCap == 2

\* An entry name is a sequence of characters.
EntryNames ==
    {<<"a">>, <<".", ".", "/", "a">>, <<"/", "a">>, <<"a", "/", ".", ".">>}

\* What zipfile / tarfile tell of one entry.
ListedEntries == {[name |-> n, size |-> 1, is_dir |-> FALSE] : n \in EntryNames}

Listings == UNION {[1..n -> ListedEntries] : n \in 0..MaxEntries}

\* The archive files: the extension, the entries inside, whether the library
\* can open the file, and what the external command does for .7z and .rar.
ArchiveFiles ==
         {[ext |-> e, listing |-> l, readable |-> r, command |-> "none"] :
             e \in {".zip", ".tar", ".gz", ".tgz"}, l \in Listings, r \in BOOLEAN}
    \cup {[ext |-> e, listing |-> l, readable |-> TRUE, command |-> c] :
             e \in {".7z", ".rar"}, l \in Listings,
             c \in {"ok", "failed", "not_found", "raises"}}
    \cup {[ext |-> ".txt", listing |-> <<>>, readable |-> FALSE, command |-> "none"]}

NoArchive == [ext |-> "", listing |-> <<>>, readable |-> FALSE, command |-> "none"]

\* zipfile and tarfile are modules of the standard library.
ZIPFILE_AVAILABLE == TRUE

TARFILE_AVAILABLE == TRUE

Lit(text) == [lit |-> text]

\* '..' in path or path.startswith('/')
HasPathTraversal(path) ==
    \/ \E i \in 1..(Len(path) - 1) : path[i] = "." /\ path[i + 1] = "."
    \/ (Len(path) >= 1 /\ path[1] = "/")

\* A listing that is not cut.
WholeListing(listing, cap) == listing

\* infolist[:self.max_entries], for a cap that is not negative.
CappedListing(listing, cap) == SubSeq(listing, 1, Min(Len(listing), cap))

\* The dict extract() starts from.
FreshArchiveMeta(ext) ==
    [is_archive |-> TRUE, format |-> ext, entries |-> <<>>, entry_count |-> 0,
     total_size_bytes |-> 0, warnings |-> <<>>, error |-> <<>>]

\* One element of meta['entries']; zip entries also have a compressed size.
ArchiveEntry(info, zip) ==
    Merge(Merge([name |-> info.name, size |-> info.size, is_dir |-> info.is_dir],
                IF zip THEN Entry("compressed_size", info.size) ELSE EmptyDict),
          IF HasPathTraversal(info.name)
          THEN Entry("warning", "Possible path traversal") ELSE EmptyDict)

\* The traversal warnings of the entries, in order.
RECURSIVE TraversalWarnings(_)
TraversalWarnings(infos) ==
    IF infos = <<>> THEN <<>>
    ELSE (IF HasPathTraversal(Head(infos).name)
          THEN << <<Lit("Path traversal in: "), [name |-> Head(infos).name]>> >>
          ELSE <<>>) \o TraversalWarnings(Tail(infos))

RECURSIVE TotalSize(_)
TotalSize(infos) == IF infos = <<>> THEN 0 ELSE Head(infos).size + TotalSize(Tail(infos))

\* _extract_zip and _extract_tar: the same steps on infolist() and on
\* getmembers().  An archive the library cannot open leaves the error.
ExtractListing(a, meta, zip) ==
    IF ~a.readable
    THEN [meta EXCEPT !.error = <<Lit("str(e)")>>]
    ELSE LET shown == CappedListing(a.listing, max_entries)
             total == TotalSize(shown)
         IN [meta EXCEPT
                !.entries = [i \in 1..Len(shown) |-> ArchiveEntry(shown[i], zip)],
                !.total_size_bytes = total,
                !.warnings =
                       TraversalWarnings(shown)
                    \o (IF Len(a.listing) > max_entries
                        THEN << <<Lit("Archive truncated: "), [num |-> Len(a.listing)],
                                  Lit(" entries, showing "), [num |-> max_entries]>> >>
                        ELSE <<>>)
                    \o (IF total > max_size_gb * 1024 * 1024 * 1024
                        THEN << <<Lit("Large archive: "), [bytes_in_gb |-> total],
                                  Lit(" GB")>> >>
                        ELSE <<>>),
                !.entry_count = Min(Len(a.listing), max_entries)]

ExtractZip(a, meta) ==
    IF ~ZIPFILE_AVAILABLE
    THEN [meta EXCEPT !.error = <<Lit("zipfile module not available")>>]
    ELSE ExtractListing(a, meta, TRUE)

ExtractTar(a, meta) ==
    IF ~TARFILE_AVAILABLE
    THEN [meta EXCEPT !.error = <<Lit("tarfile module not available")>>]
    ELSE ExtractListing(a, meta, FALSE)

\* _extract_7z and _extract_rar: the command is run and its listing is not
\* parsed.
ExtractExternalCommand(a, meta) ==
    LET tool == IF a.ext = ".7z" THEN "7z" ELSE "unrar"
        kind == IF a.ext = ".7z" THEN "7z" ELSE "rar"
    IN CASE a.command = "ok" ->
                Merge([meta EXCEPT !.format = a.ext],
                      Entry("info", <<Lit(kind), Lit(" listing available")>>))
         [] a.command = "failed" ->
                [meta EXCEPT !.error = <<Lit(tool), Lit(" command failed")>>]
         [] a.command = "not_found" ->
                [meta EXCEPT !.error = <<Lit(tool), Lit(" command not found")>>]
         [] OTHER -> [meta EXCEPT !.error = <<Lit("str(e)")>>]

\* extract(filepath)
ArchiveExtract(a) ==
    LET meta == FreshArchiveMeta(a.ext) IN
    IF a.ext = ".zip" THEN ExtractZip(a, meta)
    ELSE IF a.ext \in {".tar", ".gz", ".tgz"} THEN ExtractTar(a, meta)
    ELSE IF a.ext \in {".7z", ".rar"} THEN ExtractExternalCommand(a, meta)
    ELSE [meta EXCEPT !.error = <<Lit("Unsupported archive format: "), Lit(a.ext)>>]

NoArchiveResult == EmptyDict

\* ArchiveListExtractor(config)
ArchiveInit ==
    /\ max_entries \in 0..MaxCap
    /\ max_size_gb \in {0, 1}
    /\ archive = NoArchive
    /\ archive_result = NoArchiveResult

\* extract(filepath)
ArchiveExtractCall ==
    /\ archive = NoArchive
    /\ \E a \in ArchiveFiles :
        /\ archive' = a
        /\ archive_result' = ArchiveExtract(a)
    /\ UNCHANGED <<max_entries, max_size_gb, notArchive>>

\* The caller has the metadata.
ArchiveReturn ==
    /\ archive # NoArchive
    /\ archive' = NoArchive
    /\ archive_result' = NoArchiveResult
    /\ UNCHANGED <<max_entries, max_size_gb, notArchive>>

ArchiveNext == ArchiveExtractCall \/ ArchiveReturn

-----------------------------------------------------------------------------
(* MediaScanner (scanner.py)                                                *)

MaxScans == 2

\* target_extensions, from the extensions of the configuration.
TargetExtensions ==
    [e \in {".mp4", ".mp3", ".jpg", ".zip"} |->
        CASE e = ".mp4" -> "video" [] e = ".mp3" -> "audio"
          [] e = ".jpg" -> "image" [] OTHER -> "archive"]

\* str.lower() on the extensions of the model.
Lower(ext) == IF ext = ".MP4" THEN ".mp4" ELSE ext

\* The files a tree can hold.  sidecars are the extensions of the files of
\* the same name beside it, the same for two files of one name; stat_ok is
\* whether os.stat succeeds.
TreeFiles ==
    << [path |-> "/m/a.mp4", name |-> "a.mp4", stem |-> "a", ext |-> ".mp4",
        size |-> "1024000", stat_ok |-> TRUE, sidecars |-> {".srt", ".txt"}],
       [path |-> "/m/a.mp3", name |-> "a.mp3", stem |-> "a", ext |-> ".mp3",
        size |-> "4096", stat_ok |-> TRUE, sidecars |-> {".srt", ".txt"}],
       [path |-> "/m/a.srt", name |-> "a.srt", stem |-> "a", ext |-> ".srt",
        size |-> "20", stat_ok |-> TRUE, sidecars |-> {".txt"}],
       [path |-> "/m/B.MP4", name |-> "B.MP4", stem |-> "B", ext |-> ".MP4",
        size |-> "7", stat_ok |-> TRUE, sidecars |-> {}],
       [path |-> "/m/c.zip", name |-> "c.zip", stem |-> "c", ext |-> ".zip",
        size |-> "512", stat_ok |-> TRUE, sidecars |-> {".nfo"}],
       [path |-> "/m/d.jpg", name |-> "d.jpg", stem |-> "d", ext |-> ".jpg",
        size |-> "0", stat_ok |-> FALSE, sidecars |-> {}] >>

\* The trees: the files of a set of positions, in the order of TreeFiles.
Trees == {SelectSeq(TreeFiles, LAMBDA f : f \in chosen) : chosen \in SUBSET Range(TreeFiles)}

\* sidecar_patterns, as the kind of each extension.
SidecarType(ext) ==
    CASE ext \in {".srt", ".vtt", ".ass"} -> "subtitle"
      [] ext \in {".txt", ".md"} -> "note"
      [] OTHER -> "meta"

\* _find_sidecar_files: one key per sidecar file beside the media file.
SidecarFiles(file) ==
    [k \in {<<SidecarType(e), e>> : e \in file.sidecars} |->
        [path |-> <<"/m/", file.stem, k[2]>>, size |-> "20", type |-> k[1]]]

\* The record _process_file makes of a file.
ScanRecord(file) ==
    [path |-> file.path, name |-> file.name, name_without_ext |-> file.stem,
     ext |-> Lower(file.ext), size |-> file.size, mtime |-> "2024-01-01T00:00:00",
     kind |-> TargetExtensions[Lower(file.ext)], sidecar_files |-> SidecarFiles(file)]

\* self.metadata_list.append(meta)
AppendRecord(list, file) == Append(list, ScanRecord(file))

\* _process_file(filepath) on metadata_list: nothing for another extension
\* and when os.stat raises (a warning is logged).
ProcessFile(list, file) ==
    IF Lower(file.ext) \notin DOMAIN TargetExtensions THEN list
    ELSE IF ~file.stat_ok THEN list
    ELSE AppendRecord(list, file)

NoScanResult == <<"none">>

\* MediaScanner(config_path)
ScannerInit ==
    /\ root_exists \in BOOLEAN
    /\ tree \in Trees
    /\ scanner_metadata_list = <<>>
    /\ spc = "idle"
    /\ walk = 0
    /\ scan_result = NoScanResult
    /\ scans = 0

\* scan(): the entry; [] at once when root_path does not exist.
ScanStart ==
    /\ spc = "idle"
    /\ scans < MaxScans
    /\ scans' = scans + 1
    /\ IF root_exists
       THEN /\ spc' = "walking"
            /\ walk' = 1
            /\ scan_result' = NoScanResult
       ELSE /\ spc' = "returned"
            /\ walk' = 0
            /\ scan_result' = <<>>
    /\ UNCHANGED <<root_exists, tree, scanner_metadata_list, notScanner>>

\* One file of the walk: self._process_file(filepath).
ScanFile ==
    /\ spc = "walking"
    /\ walk <= Len(tree)
    /\ scanner_metadata_list' = ProcessFile(scanner_metadata_list, tree[walk])
    /\ walk' = walk + 1
    /\ UNCHANGED <<root_exists, tree, spc, scan_result, scans, notScanner>>

\* return self.metadata_list
ScanEnd ==
    /\ spc = "walking"
    /\ walk > Len(tree)
    /\ spc' = "returned"
    /\ scan_result' = scanner_metadata_list
    /\ UNCHANGED <<root_exists, tree, scanner_metadata_list, walk, scans, notScanner>>

\* The caller has the list.
ScanReturn ==
    /\ spc = "returned"
    /\ spc' = "idle"
    /\ walk' = 0
    /\ UNCHANGED <<root_exists, tree, scanner_metadata_list, scan_result, scans, notScanner>>

ScannerNext == ScanStart \/ ScanFile \/ ScanEnd \/ ScanReturn

-----------------------------------------------------------------------------
(* TextSourceExtractor (text_sources.py)                                    *)

\* The number of characters of the preview.
PreviewCap == 1000

\* The ceiling the extractor of the model is configured with, in bytes.
TextCeiling == 1002

\* A decoded text of n characters.
TextOf(n) == [i \in 1..n |-> IF i % 3 = 0 THEN "c" ELSE IF i % 3 = 1 THEN "a" ELSE "b"]

\* One sidecar file beside the media file "movie": its key in sidecar_files,
\* whether it exists, whether os.path.getsize succeeds, its size, whether
\* one of the encodings reads it, and its decoded text.
Sidecar(type, ext, exists, sizable, size, decodable) ==
    [id |-> <<type, ext>>, type |-> type, ext |-> ext, filename |-> <<"movie", ext>>,
     exists |-> exists, getsize_ok |-> sizable, size |-> size,
     decodable |-> decodable, text |-> IF decodable THEN TextOf(size) ELSE <<>>]

\* The sidecar files there can be, in the order of SOURCE_TYPES.
SidecarSamples ==
    << Sidecar("subtitle", ".srt", TRUE, TRUE, 5, TRUE),
       Sidecar("subtitle", ".vtt", TRUE, TRUE, 0, TRUE),
       Sidecar("subtitle", ".ass", TRUE, TRUE, TextCeiling + 1, TRUE),
       Sidecar("note", ".txt", TRUE, TRUE, PreviewCap + 1, TRUE),
       Sidecar("note", ".md", TRUE, TRUE, TextCeiling, TRUE),
       Sidecar("meta", ".nfo", TRUE, TRUE, TextCeiling + 2, TRUE),
       Sidecar("meta", ".json", TRUE, TRUE, 5, FALSE),
       Sidecar("meta", ".xml", TRUE, FALSE, 5, TRUE) >>

\* The files of a directory: a set of the samples, in their order.
SidecarDirs ==
    {SelectSeq(SidecarSamples, LAMBDA f : f \in chosen) :
        chosen \in SUBSET Range(SidecarSamples)}

\* sidecar_info: the files of a directory as the scanner saw them; by now one
\* of them may be gone.
SidecarInfos ==
    UNION {{dir} \cup {[dir EXCEPT ![i].exists = FALSE] : i \in 1..Len(dir)} :
              dir \in SidecarDirs}

\* A gate that also stops a file of exactly the ceiling.
AtOrOverCeiling(size, ceiling) == size >= ceiling

\* size > self.text_max_size
OverCeiling(size, ceiling) == size > ceiling

\* text[:1000]
Preview(text) == SubSeq(text, 1, Min(Len(text), PreviewCap))

\* The length of what is kept of a text.
PreviewLength(text) == Len(Preview(text))

\* len(text)
TextLength(text) == Len(text)

\* _read_text_file(path): the text in the first encoding that reads the file,
\* None when none does.
ReadTextFile(f) == IF f.decodable THEN Str(f.text) ELSE None

EmptyTextResult == [text_sources |-> <<>>, total_text_size |-> 0, extraction_errors |-> <<>>]

\* The entry of text_sources: extract_from_sidecar keeps a preview,
\* extract_from_path the length.
TextSourceEntry(op, f) ==
    Merge([source_type |-> f.type, filename |-> f.filename, extension |-> f.ext,
           size |-> f.size],
          IF op = "extract_from_sidecar"
          THEN Entry("text", Preview(f.text))
          ELSE Entry("text_length", TextLength(f.text)))

\* The extraction error of a file over the ceiling.
TooLargeError(op, f) ==
    IF op = "extract_from_sidecar"
    THEN <<[id |-> f.id], Lit(": file too large ("), [num |-> f.size], Lit(" bytes)")>>
    ELSE <<[filename |-> f.filename], Lit(": file too large")>>

\* The extraction error of a file whose handling raised.
RaisedError(op, f) ==
    IF op = "extract_from_sidecar"
    THEN <<[id |-> f.id], Lit(": "), Lit("str(e)")>>
    ELSE <<[filename |-> f.filename], Lit(": "), Lit("str(e)")>>

\* One turn of the loop of either method on the result and the reads so far.
SidecarStep(op, acc, f) ==
    IF ~f.exists THEN acc
    ELSE IF ~f.getsize_ok
    THEN [acc EXCEPT !.result.extraction_errors = Append(@, RaisedError(op, f))]
    ELSE IF OverCeiling(f.size, text_max_size)
    THEN [acc EXCEPT !.result.extraction_errors = Append(@, TooLargeError(op, f))]
    ELSE LET text == ReadTextFile(f) IN
         IF text.type = "str" /\ text.value # <<>>
         THEN [acc EXCEPT !.result.text_sources = Append(@, TextSourceEntry(op, f)),
                          !.result.total_text_size = @ + TextLength(f.text),
                          !.reads = Append(@, f.id)]
         ELSE [acc EXCEPT !.reads = Append(@, f.id)]

\* The loop over the files.
RECURSIVE SidecarLoop(_, _, _)
SidecarLoop(op, acc, files) ==
    IF files = <<>> THEN acc
    ELSE SidecarLoop(op, SidecarStep(op, acc, Head(files)), Tail(files))

ExtractTexts(op, files) ==
    SidecarLoop(op, [result |-> EmptyTextResult, reads |-> <<>>], files)

\* The media paths extract_from_path is called with, by os.path.dirname and
\* os.path.splitext of os.path.basename: two files of one name in one
\* directory, and one of another name.
MediaArguments ==
    {[dirname |-> "/m", basename |-> "movie", ext |-> ".mp4"],
     [dirname |-> "/m", basename |-> "movie", ext |-> ".mkv"],
     [dirname |-> "/m", basename |-> "clip", ext |-> ".mp4"]}

NoMedia == [dirname |-> "", basename |-> "", ext |-> ""]

\* sidecar_path = os.path.join(dirname, f"{basename}{ext}")
SidecarPath(media, ext) == <<media.dirname, "/", media.basename, ext>>

\* The files for which os.path.exists(sidecar_path) holds, dir being the
\* files /m/movie.* of the directory: no file is named after clip.
FilesBeside(media, dir) ==
    IF media.dirname = "/m" /\ media.basename = "movie" THEN dir ELSE <<>>

\* TextSourceExtractor(config)
TextInit ==
    /\ text_max_size = TextCeiling
    /\ text_op = "none"
    /\ sidecars = <<>>
    /\ text_result = EmptyTextResult
    /\ text_reads = <<>>
    /\ text_media = NoMedia

\* extract_from_sidecar(sidecar_info)
ExtractFromSidecar ==
    /\ text_op = "none"
    /\ \E info \in SidecarInfos :
        /\ sidecars' = info
        /\ text_result' = ExtractTexts("extract_from_sidecar", info).result
        /\ text_reads' = ExtractTexts("extract_from_sidecar", info).reads
    /\ text_op' = "extract_from_sidecar"
    /\ text_media' = NoMedia
    /\ UNCHANGED <<text_max_size, notText>>

\* extract_from_path(media_path)
ExtractFromPath ==
    /\ text_op = "none"
    /\ \E media \in MediaArguments, dir \in SidecarDirs :
        /\ text_media' = media
        /\ sidecars' = FilesBeside(media, dir)
        /\ text_result' = ExtractTexts("extract_from_path", FilesBeside(media, dir)).result
        /\ text_reads' = ExtractTexts("extract_from_path", FilesBeside(media, dir)).reads
    /\ text_op' = "extract_from_path"
    /\ UNCHANGED <<text_max_size, notText>>

\* The caller has the result.
TextReturn ==
    /\ text_op # "none"
    /\ text_op' = "none"
    /\ sidecars' = <<>>
    /\ text_result' = EmptyTextResult
    /\ text_reads' = <<>>
    /\ text_media' = NoMedia
    /\ UNCHANGED <<text_max_size, notText>>

TextNext == ExtractFromSidecar \/ ExtractFromPath \/ TextReturn

-----------------------------------------------------------------------------
(* VideoAudioMetaExtractor (meta_video_audio.py)                            *)

\* The most streams in the ffprobe output of the model.
MaxStreams == 2

DecimalDigits == <<"0", "1", "2", "3", "4", "5", "6", "7", "8", "9">>

IsDecimal(chars) == chars # <<>> /\ \A i \in 1..Len(chars) : chars[i] \in Range(DecimalDigits)

DigitValue(c) == (CHOOSE d \in 1..10 : DecimalDigits[d] = c) - 1

RECURSIVE DecimalValue(_)
DecimalValue(chars) ==
    IF chars = <<>> THEN 0
    ELSE 10 * DecimalValue(SubSeq(chars, 1, Len(chars) - 1)) + DigitValue(chars[Len(chars)])

RECURSIVE PowerOfTen(_)
PowerOfTen(n) == IF n = 0 THEN 1 ELSE 10 * PowerOfTen(n - 1)

RECURSIVE GCD(_, _)
GCD(a, b) == IF b = 0 THEN a ELSE GCD(b, a % b)

Abs(n) == IF n < 0 THEN 0 - n ELSE n

\* The float num / den (den not 0), as the fraction in lowest terms.
Float(num, den) ==
    LET g == GCD(Abs(num), Abs(den))
        sign == IF den < 0 THEN 0 - 1 ELSE 1
    IN [type |-> "float", value |-> <<sign * (num \div g), sign * (den \div g)>>]

\* str.split(sep) of a string that is a sequence of characters.
RECURSIVE SplitOn(_, _, _)
SplitOn(chars, sep, current) ==
    IF chars = <<>> THEN <<current>>
    ELSE IF Head(chars) = sep THEN <<current>> \o SplitOn(Tail(chars), sep, <<>>)
    ELSE SplitOn(Tail(chars), sep, Append(current, Head(chars)))

Unsigned(chars) ==
    IF chars # <<>> /\ Head(chars) \in {"-", "+"} THEN Tail(chars) ELSE chars

\* int(s) raises ValueError unless s is an optional sign and digits.
IntRaises(chars) == ~IsDecimal(Unsigned(chars))

\* int(s)
IntOf(chars) ==
    IF chars # <<>> /\ Head(chars) = "-"
    THEN 0 - DecimalValue(Tail(chars))
    ELSE DecimalValue(Unsigned(chars))

\* float(s) raises ValueError unless s is digits, or digits "." digits.
FloatRaises(chars) ==
    LET parts == SplitOn(chars, ".", <<>>)
    IN ~ \/ Len(parts) = 1 /\ IsDecimal(parts[1])
         \/ Len(parts) = 2 /\ IsDecimal(parts[1]) /\ IsDecimal(parts[2])

\* float(s)
FloatOf(chars) ==
    LET parts == SplitOn(chars, ".", <<>>)
    IN IF Len(parts) = 1 THEN Float(DecimalValue(parts[1]), 1)
       ELSE Float(DecimalValue(parts[1] \o parts[2]), PowerOfTen(Len(parts[2])))

\* d.get(key)
GetOrNone(d, key) == GetOr(d, key, None)

\* d.get(key, {})
GetOrEmpty(d, key) == GetOr(d, key, EmptyDict)

\* The strings r_frame_rate is in the ffprobe outputs of the model.
FrameRates ==
    { <<"3", "0", "/", "1">>,
      <<"3", "0", "0", "0", "0", "/", "1", "0", "0", "1">>,
      <<"3", "0", "/", "0">>,
      <<"0", "/", "0">>,
      <<"3", "0">>,
      <<"a", "/", "b">>,
      <<"3", "0", "/">>,
      <<"1", "/", "2", "/", "3">>,
      <<>> }

\* The strings the duration of the format is in the ffprobe outputs.
Durations == { <<"1", "2", ".", "5">>, <<"9", "0">>, <<"N", "/", "A">>, <<>> }

VideoStreamBase ==
    [codec_type |-> Str(<<"video">>), codec_name |-> Str(<<"h264">>),
     width |-> Str(<<"1920">>), height |-> Str(<<"1080">>), bit_rate |-> Str(<<"4000000">>)]

\* The video streams: with every r_frame_rate, and without the field.
ProbeVideoStreams ==
    {VideoStreamBase}
        \cup {Merge(VideoStreamBase, Entry("r_frame_rate", Str(rate))) : rate \in FrameRates}

AudioStreamBase ==
    [codec_type |-> Str(<<"audio">>), codec_name |-> Str(<<"aac">>),
     sample_rate |-> Str(<<"48000">>), channels |-> Str(<<"2">>)]

ProbeAudioStreams ==
    { AudioStreamBase,
      Merge(AudioStreamBase, Entry("tags", Entry("language", Str(<<"jpn">>)))) }

ProbeOtherStreams == { [codec_type |-> Str(<<"subtitle">>), codec_name |-> Str(<<"subrip">>)] }

ProbeStreams == ProbeVideoStreams \cup ProbeAudioStreams \cup ProbeOtherStreams

FormatTags ==
    { EmptyDict,
      Entry("title", Str(<<"T">>)),
      [title |-> Str(<<"T">>), artist |-> Str(<<"A">>), album |-> Str(<<"B">>),
       date |-> Str(<<"2020">>)] }

\* The format object: with a duration or without, with tags or without.
ProbeFormats ==
    LET durations == {EmptyDict} \cup {Entry("duration", Str(d)) : d \in Durations}
        tags == {EmptyDict} \cup {Entry("tags", t) : t \in FormatTags}
    IN {Merge(d, t) : d \in durations, t \in tags}

\* What ffprobe prints: a JSON object with format and streams.
ProbeData ==
    LET formats == {EmptyDict} \cup {Entry("format", f) : f \in ProbeFormats}
        streams == {EmptyDict}
                     \cup {Entry("streams", ss) :
                              ss \in UNION {[1..n -> ProbeStreams] : n \in 0..MaxStreams}}
    IN {Merge(f, ss) : f \in formats, ss \in streams}

\* The ffprobe run: it times out, exits with an error, prints no JSON, or
\* prints the description of the file.
ProbeRun(outcome, data) == [outcome |-> outcome, data |-> data]

NoProbe == ProbeRun("none", EmptyDict)

\* den != 0
DenominatorIsZero(den) == den = 0

\* _calculate_fps(stream)
CalculateFps(stream) ==
    LET r_frame_rate == GetOrNone(stream, "r_frame_rate") IN
    IF r_frame_rate.type = "NoneType" \/ r_frame_rate.value = <<>>
           \/ "/" \notin Range(r_frame_rate.value)
    THEN None
    ELSE LET parts == SplitOn(r_frame_rate.value, "/", <<>>) IN
         IF Len(parts) # 2 \/ IntRaises(parts[1]) \/ IntRaises(parts[2])
         THEN None
         ELSE IF DenominatorIsZero(IntOf(parts[2])) THEN None
         ELSE Float(IntOf(parts[1]), IntOf(parts[2]))

\* float(fmt['duration']) raises.
DurationRaises(data) ==
    LET fmt == GetOrEmpty(data, "format")
    IN "duration" \in DOMAIN fmt /\ FloatRaises(fmt["duration"].value)

\* meta after the format part of _parse_ffprobe_output.
FormatPart(fmt, meta) ==
    LET withDuration ==
            IF "duration" \in DOMAIN fmt
            THEN Merge(Entry("duration_sec", FloatOf(fmt["duration"].value)), meta)
            ELSE meta
        tags == GetOrEmpty(fmt, "tags")
    IN IF DOMAIN tags # {}
       THEN Merge(Entry("tags", [title |-> GetOrNone(tags, "title"),
                                 artist |-> GetOrNone(tags, "artist"),
                                 album |-> GetOrNone(tags, "album"),
                                 date |-> GetOrNone(tags, "date")]),
                  withDuration)
       ELSE withDuration

VideoOf(stream) ==
    [codec |-> GetOrNone(stream, "codec_name"),
     width |-> GetOrNone(stream, "width"),
     height |-> GetOrNone(stream, "height"),
     fps |-> CalculateFps(stream),
     bitrate |-> GetOrNone(stream, "bit_rate")]

AudioOf(stream) ==
    [codec |-> GetOrNone(stream, "codec_name"),
     sample_rate |-> GetOrNone(stream, "sample_rate"),
     channels |-> GetOrNone(stream, "channels"),
     bitrate |-> GetOrNone(stream, "bit_rate"),
     language |-> GetOrNone(GetOrEmpty(stream, "tags"), "language")]

\* meta after the loop over the streams.
RECURSIVE StreamsPart(_, _)
StreamsPart(streams, meta) ==
    IF streams = <<>> THEN meta
    ELSE LET stream == Head(streams)
             codec_type == GetOrNone(stream, "codec_type")
         IN StreamsPart(Tail(streams),
                IF codec_type = Str(<<"video">>)
                THEN Merge(Entry("video", VideoOf(stream)), meta)
                ELSE IF codec_type = Str(<<"audio">>)
                THEN Merge(Entry("audio",
                                 Append(IF "audio" \in DOMAIN meta THEN meta["audio"]
                                        ELSE <<>>,
                                        AudioOf(stream))),
                           meta)
                ELSE meta)

\* _parse_ffprobe_output(data, meta), when it does not raise.
ParseFfprobeOutput(data, meta) ==
    StreamsPart(IF "streams" \in DOMAIN data THEN data["streams"] ELSE <<>>,
                FormatPart(GetOrEmpty(data, "format"), meta))

FreshMeta(available) == [ffprobe_available |-> available, error |-> None]

WithError(meta, message) == [meta EXCEPT !["error"] = Str(<<message>>)]

\* extract(filepath)
Extract(available, run) ==
    LET meta == FreshMeta(available) IN
    IF ~available THEN WithError(meta, "ffprobe not available")
    ELSE IF run.outcome = "timeout" THEN WithError(meta, "ffprobe timeout")
    ELSE IF run.outcome = "failed" THEN WithError(meta, "result.stderr")
    ELSE IF run.outcome = "not json" THEN WithError(meta, "JSON parse error: {e}")
    ELSE IF DurationRaises(run.data) THEN WithError(meta, "str(e)")
    ELSE ParseFfprobeOutput(run.data, meta)

\* VideoAudioMetaExtractor()
VideoAudioInit ==
    /\ ffprobe_available \in BOOLEAN
    /\ va_op = "none"
    /\ ffprobe = NoProbe
    /\ va_meta = FreshMeta(ffprobe_available)

\* extract(filepath) on a file ffprobe cannot describe, or without ffprobe.
ExtractFails ==
    /\ va_op = "none"
    /\ \E outcome \in {"timeout", "failed", "not json"} :
        /\ ffprobe' = IF ffprobe_available THEN ProbeRun(outcome, EmptyDict) ELSE NoProbe
        /\ va_meta' = Extract(ffprobe_available, ProbeRun(outcome, EmptyDict))
    /\ va_op' = "extract"
    /\ UNCHANGED <<ffprobe_available, notVideoAudio>>

\* extract(filepath) on a file ffprobe describes.
ExtractProbed ==
    /\ va_op = "none"
    /\ ffprobe_available
    /\ \E data \in ProbeData :
        /\ ffprobe' = ProbeRun("printed", data)
        /\ va_meta' = Extract(ffprobe_available, ProbeRun("printed", data))
    /\ va_op' = "extract"
    /\ UNCHANGED <<ffprobe_available, notVideoAudio>>

\* The caller has the dictionary.
VideoAudioReturn ==
    /\ va_op = "extract"
    /\ va_op' = "none"
    /\ ffprobe' = NoProbe
    /\ va_meta' = FreshMeta(ffprobe_available)
    /\ UNCHANGED <<ffprobe_available, notVideoAudio>>

VideoAudioNext == ExtractFails \/ ExtractProbed \/ VideoAudioReturn

-----------------------------------------------------------------------------
(* AudioMetaExtractor (meta_audio.py)                                       *)

\* A tag value as mutagen gives it: a list of values or one value.
TagList(values) == [list |-> values]

TagValue(value) == [one |-> value]

\* The audio objects MutagenFile returns in the model: whether the object has
\* tags and an info attribute, the tags by their format-specific keys, and
\* the attributes of info.
AudioObject(has_tags, tags, has_info, info) ==
    [has_tags |-> has_tags, tags |-> tags, has_info |-> has_info, info |-> info]

AudioInfos ==
    { [length |-> Str(<<"180.0">>), bitrate |-> Str(<<"320000">>),
       sample_rate |-> Str(<<"44100">>), channels |-> Str(<<"2">>)],
      [length |-> Str(<<"180.0">>)] }

AudioTags ==
    { EmptyDict,
      [TIT2 |-> TagList(<<"T">>), TPE1 |-> TagList(<<"A", "B">>), TCON |-> TagList(<<>>)],
      [Title |-> TagValue("T"), Album |-> TagValue("B"), Date |-> TagValue("2020")] }

AudioObjects ==
    {AudioObject(TRUE, t, TRUE, i) : t \in AudioTags, i \in AudioInfos}
        \cup {AudioObject(TRUE, t, FALSE, EmptyDict) : t \in AudioTags}
        \cup {AudioObject(FALSE, EmptyDict, FALSE, EmptyDict)}

\* MutagenFile(filepath): it raises, returns None, or returns an audio object.
MutagenRun(outcome, audio) == [outcome |-> outcome, audio |-> audio]

NoAudioObject == AudioObject(FALSE, EmptyDict, FALSE, EmptyDict)

NoMutagen == MutagenRun("none", NoAudioObject)

MutagenRuns ==
    {MutagenRun("raises", NoAudioObject), MutagenRun("returns None", NoAudioObject)}
        \cup {MutagenRun("returns audio", a) : a \in AudioObjects}

\* The ffprobe runs of the model for an audio file.
AudioProbeRuns ==
    LET formats == {EmptyDict} \cup {Entry("format", f) : f \in ProbeFormats}
        streams == {EmptyDict} \cup {Entry("streams", <<a>>) : a \in ProbeAudioStreams}
    IN {ProbeRun(outcome, EmptyDict) : outcome \in {"timeout", "failed", "not json"}}
           \cup {ProbeRun("printed", Merge(f, ss)) : f \in formats, ss \in streams}

\* str(value[0]) of a list with values, str(value) of anything else.
TagStr(value) ==
    IF "list" \in DOMAIN value
    THEN IF value.list # <<>> THEN Str(<<value.list[1]>>) ELSE Str(<<"[]">>)
    ELSE Str(<<value.one>>)

\* _get_tag(tags, keys)
RECURSIVE GetTag(_, _)
GetTag(tags, keys) ==
    IF keys = <<>> THEN None
    ELSE IF Head(keys) \in DOMAIN tags THEN TagStr(tags[Head(keys)])
    ELSE GetTag(tags, Tail(keys))

\* The names of the keys mutagen has for the tags; "\xa9nam" and the like are
\* written "(c)nam".
TagAliases ==
    [title |-> <<"TIT2", "Title", "(c)nam">>,
     artist |-> <<"TPE1", "Artist", "(c)ART">>,
     album |-> <<"TALB", "Album", "(c)alb">>,
     date |-> <<"TDRC", "Date", "(c)day">>,
     genre |-> <<"TCON", "Genre", "(c)gen">>]

\* getattr(info, name, None)
GetAttr(info, name) == GetOr(info, name, None)

\* An Optional[Dict]: None, or a dictionary.
NoDict == [some |-> FALSE, dict |-> EmptyDict]

SomeDict(d) == [some |-> TRUE, dict |-> d]

\* _extract_with_mutagen(filepath)
ExtractWithMutagen(run) ==
    IF run.outcome # "returns audio" THEN NoDict
    ELSE LET audio == run.audio
             tags == IF audio.has_tags /\ DOMAIN audio.tags # {}
                     THEN Entry("tags", [k \in DOMAIN TagAliases |->
                                            GetTag(audio.tags, TagAliases[k])])
                     ELSE EmptyDict
             info == IF audio.has_info
                     THEN Entry("info",
                                [duration_sec |-> GetAttr(audio.info, "length"),
                                 bitrate |-> GetAttr(audio.info, "bitrate"),
                                 sample_rate |-> GetAttr(audio.info, "sample_rate"),
                                 channels |-> GetAttr(audio.info, "channels")])
                     ELSE EmptyDict
             meta == Merge(tags, info)
         IN IF DOMAIN meta # {} THEN SomeDict(meta) ELSE NoDict

\* An extractor that goes on to ffprobe whatever mutagen gave.
IgnoresTagData(tag_data) == FALSE

\* if tag_data:
HasTagData(tag_data) == tag_data.some /\ DOMAIN tag_data.dict # {}

FreshAudioMeta(available) == [mutagen_available |-> available, error |-> None]

\* The call returns what mutagen gave.
ReturnsTagData(available, run) == available /\ HasTagData(ExtractWithMutagen(run))

\* AudioMetaExtractor.extract(filepath): the dictionary it returns.
AudioExtractMeta(available, run, probe_available, probe) ==
    IF ReturnsTagData(available, run)
    THEN Merge(ExtractWithMutagen(run).dict, FreshAudioMeta(available))
    ELSE Merge(Extract(probe_available, probe), FreshAudioMeta(available))

\* The tools the call goes to.
AudioExtractCalls(available, run) ==
    (IF available THEN <<"mutagen">> ELSE <<>>)
        \o (IF ReturnsTagData(available, run) THEN <<>> ELSE <<"ffprobe">>)

\* AudioMetaExtractor()
AudioInit ==
    /\ mutagen_available \in BOOLEAN
    /\ audio_op = "none"
    /\ mutagen = NoMutagen
    /\ audio_calls = <<>>
    /\ audio_meta = FreshAudioMeta(mutagen_available)

\* extract(filepath)
AudioExtract ==
    /\ audio_op = "none"
    /\ \E run \in MutagenRuns, probe \in AudioProbeRuns :
        /\ mutagen' = IF mutagen_available THEN run ELSE NoMutagen
        /\ ffprobe' = IF ReturnsTagData(mutagen_available, run) \/ ~ffprobe_available
                      THEN NoProbe ELSE probe
        /\ audio_calls' = AudioExtractCalls(mutagen_available, run)
        /\ audio_meta' = AudioExtractMeta(mutagen_available, run, ffprobe_available, probe)
    /\ audio_op' = "extract"
    /\ UNCHANGED <<mutagen_available, ffprobe_available, va_op, va_meta, notAudio>>

\* The caller has the dictionary.
AudioReturn ==
    /\ audio_op = "extract"
    /\ audio_op' = "none"
    /\ mutagen' = NoMutagen
    /\ ffprobe' = NoProbe
    /\ audio_calls' = <<>>
    /\ audio_meta' = FreshAudioMeta(mutagen_available)
    /\ UNCHANGED <<mutagen_available, ffprobe_available, va_op, va_meta, notAudio>>

AudioNext == AudioExtract \/ AudioReturn

-----------------------------------------------------------------------------
(* The specifications: one component runs, the others stay as constructed.  *)

\* TextChunker() as constructed by default, no call made.
ChunkerParked ==
    /\ chunk_size = 512
    /\ chunk_overlap = 50
    /\ lastCall = NoCall

\* An engine without indexer that runs no query.
QueryParked ==
    /\ indexer = "None"
    /\ db = "None"
    /\ requests_available = TRUE
    /\ qpc = "Idle"
    /\ question = ""
    /\ search_results = <<>>
    /\ evidence = <<>>
    /\ http = NoHttp
    /\ llm_response = None
    /\ result = NoResult
    /\ searches = 0
    /\ llm_calls = 0

\* A process that builds no document.
DocParked ==
    /\ hashseed = <<"meta", "note", "subtitle">>
    /\ doc_record = NoRecord
    /\ doc_runs = <<>>
    /\ doc_metadata = NoMetadata

\* An indexer that is not used.
IndexerParked ==
    /\ chromadb_available = TRUE
    /\ unique_ids = TRUE
    /\ store = <<>>
    /\ ipc = "idle"
    /\ metadata_list = <<>>
    /\ idx = 0
    /\ store_calls = <<>>
    /\ add_raised = {}
    /\ index_warnings = {}
    /\ hits = NoSearch

\* ArchiveListExtractor({}) with the defaults, not used.
ArchiveParked ==
    /\ max_entries = 50000
    /\ max_size_gb = 50
    /\ archive = NoArchive
    /\ archive_result = NoArchiveResult

\* A scanner over an empty tree, not used.
ScannerParked ==
    /\ root_exists = TRUE
    /\ tree = <<>>
    /\ scanner_metadata_list = <<>>
    /\ spc = "idle"
    /\ walk = 0
    /\ scan_result = NoScanResult
    /\ scans = 0

\* TextSourceExtractor({}) with the default ceiling, not used.
TextParked ==
    /\ text_max_size = 1048576
    /\ text_op = "none"
    /\ sidecars = <<>>
    /\ text_result = EmptyTextResult
    /\ text_reads = <<>>
    /\ text_media = NoMedia

\* VideoAudioMetaExtractor() on a machine with ffprobe, not used.
VideoAudioParked ==
    /\ ffprobe_available = TRUE
    /\ va_op = "none"
    /\ ffprobe = NoProbe
    /\ va_meta = FreshMeta(TRUE)

\* AudioMetaExtractor() on a machine with mutagen, not used.
AudioParked ==
    /\ mutagen_available = TRUE
    /\ audio_op = "none"
    /\ mutagen = NoMutagen
    /\ audio_calls = <<>>
    /\ audio_meta = FreshAudioMeta(TRUE)

\* The extractors and the scanner, not used.
ExtractorsParked ==
    ArchiveParked /\ ScannerParked /\ TextParked /\ VideoAudioParked /\ AudioParked

InitChunker == ChunkerInit /\ QueryParked /\ DocParked /\ IndexerParked /\ ExtractorsParked

InitQuery == QueryInit /\ ChunkerParked /\ DocParked /\ IndexerParked /\ ExtractorsParked

InitDoc == DocInit /\ ChunkerParked /\ QueryParked /\ IndexerParked /\ ExtractorsParked

InitIndexer == IndexerInit /\ DocInit /\ ChunkerParked /\ QueryParked /\ ExtractorsParked

\* The chunker, the query engine, the document builder and the indexer, not used.
PipelineParked == ChunkerParked /\ QueryParked /\ DocParked /\ IndexerParked

InitArchive ==
    ArchiveInit /\ PipelineParked /\ ScannerParked /\ TextParked /\ VideoAudioParked
        /\ AudioParked

InitScanner ==
    ScannerInit /\ PipelineParked /\ ArchiveParked /\ TextParked /\ VideoAudioParked
        /\ AudioParked

InitText ==
    TextInit /\ PipelineParked /\ ArchiveParked /\ ScannerParked /\ VideoAudioParked
        /\ AudioParked

InitVideoAudio ==
    VideoAudioInit /\ PipelineParked /\ ArchiveParked /\ ScannerParked /\ TextParked
        /\ AudioParked

SpecChunker == InitChunker /\ [][ChunkerNext]_vars

SpecQuery == InitQuery /\ [][QueryNext]_vars

SpecDoc == InitDoc /\ [][DocNext]_vars

SpecIndexer == InitIndexer /\ [][IndexerNext]_vars

SpecConcurrent == InitIndexer /\ [][ConcurrentNext]_vars

SpecArchive == InitArchive /\ [][ArchiveNext]_vars

SpecScanner == InitScanner /\ [][ScannerNext]_vars

SpecText == InitText /\ [][TextNext]_vars

InitAudio ==
    AudioInit /\ VideoAudioInit /\ PipelineParked /\ ArchiveParked /\ ScannerParked
        /\ TextParked

SpecVideoAudio == InitVideoAudio /\ [][VideoAudioNext]_vars

SpecAudio == InitAudio /\ [][AudioNext]_vars

-----------------------------------------------------------------------------
(* Claims about the chunker, checked under SpecChunker.                     *)

\* The number of leading characters of cur that repeat the end of prev, at most ov.
SharedPrefix(prev, cur, ov) ==
    LET cands == {k \in 0..Min(ov, Min(Len(prev), Len(cur))) :
                     SubSeq(prev, Len(prev) - k + 1, Len(prev)) = SubSeq(cur, 1, k)}
    IN CHOOSE k \in cands : \A j \in cands : j <= k

\* The chunk texts in order, each after the first without what it shares with
\* its predecessor.
RECURSIVE DeOverlapFrom(_, _, _)
DeOverlapFrom(chunks, k, ov) ==
    IF k > Len(chunks)
    THEN <<>>
    ELSE LET cur == chunks[k].text
             cut == IF k = 1 THEN 0 ELSE SharedPrefix(chunks[k - 1].text, cur, ov)
         IN SubSeq(cur, cut + 1, Len(cur)) \o DeOverlapFrom(chunks, k + 1, ov)

DeOverlap(chunks, ov) == DeOverlapFrom(chunks, 1, ov)

\* C1: for 0 <= overlap < chunk_size, chunk(T) returns chunks whose texts,
\* de-overlapped and concatenated in order, give back T exactly, and every
\* chunk is at most chunk_size characters long.
C1_ChunkReconstructsText ==
    (lastCall.op = "chunk" /\ chunk_overlap < chunk_size) =>
        /\ lastCall.outcome = "return"
        /\ DeOverlap(lastCall.chunks, chunk_overlap) = lastCall.text
        /\ \A k \in 1..Len(lastCall.chunks) :
               /\ Len(lastCall.chunks[k].text) <= chunk_size
               /\ lastCall.chunks[k].length <= chunk_size

\* A call with a real overlap that needed several chunks, the last one cut
\* short by the end of the text.
C1_Witness ==
    /\ lastCall.op = "chunk"
    /\ chunk_overlap >= 1
    /\ chunk_overlap < chunk_size
    /\ Len(lastCall.chunks) >= 2
    /\ lastCall.chunks[Len(lastCall.chunks)].length < chunk_size

\* What an explicit rejection of the configuration would look like.
ConfigRejected == "ValueError: chunk_overlap must be smaller than chunk_size"

\* C2: a configuration with chunk_overlap >= chunk_size is explicitly rejected
\* as invalid for every non-empty text: chunk() neither fails with an
\* unrelated internal error nor returns a chunk list that omits the text.
C2_OverlapPreconditionChecked ==
    (lastCall.op = "chunk" /\ Len(lastCall.text) > 0 /\ chunk_overlap >= chunk_size) =>
        /\ lastCall.outcome = ConfigRejected
        /\ lastCall.outcome # "ValueError: range() arg 3 must not be zero"
        /\ ~(lastCall.outcome = "return" /\ lastCall.chunks = <<>>)

\* The number of sentences in the chunks before the k-th.
RECURSIVE SentencesBefore(_, _)
SentencesBefore(chunks, k) ==
    IF k <= 1 THEN 0
    ELSE SentencesBefore(chunks, k - 1) + chunks[k - 1].sentence_count

\* C3: chunk_by_sentences never splits a sentence: each chunk is the
\* concatenation of one or more consecutive whole sentences of
\* _split_sentences, every sentence lies in exactly one chunk, and a chunk
\* longer than max_chars_per_chunk holds exactly one sentence.
C3_SentencesNeverSplit ==
    lastCall.op = "chunk_by_sentences" =>
        LET sents == SplitSentences(lastCall.text)
            ch == lastCall.chunks
        IN /\ SentencesBefore(ch, Len(ch) + 1) = Len(sents)
           /\ \A k \in 1..Len(ch) :
                  /\ ch[k].sentence_count >= 1
                  /\ SentencesBefore(ch, k) + ch[k].sentence_count <= Len(sents)
                  /\ ch[k].text =
                        Join(SubSeq(sents, SentencesBefore(ch, k) + 1,
                                    SentencesBefore(ch, k) + ch[k].sentence_count))
                  /\ (Len(ch[k].text) > lastCall.max_chars => ch[k].sentence_count = 1)

\* A call that packed its sentences into several chunks, one of them a single
\* sentence above the cap.
C3_Witness ==
    /\ lastCall.op = "chunk_by_sentences"
    /\ Len(lastCall.chunks) >= 2
    /\ \E k \in 1..Len(lastCall.chunks) :
           /\ Len(lastCall.chunks[k].text) > lastCall.max_chars
           /\ lastCall.chunks[k].sentence_count = 1

-----------------------------------------------------------------------------
(* Claims about the query engine, checked under SpecQuery.                  *)

\* The values of a metadata map.
ValuesOf(meta) == {meta[k] : k \in DOMAIN meta}

\* C4: a query against an empty or absent store (no indexer, db None, no
\* documents, a store query that raises) ends with a result that holds
\* candidates = [] and count = 0 and a definitive not-found answer.
C4_EmptyStoreResult ==
    (qpc \in {"Answered", "IndexUnavailable"} /\ search_results = <<>>) =>
        /\ "answer" \in DOMAIN result
        /\ result.answer \in {Str(<<"MSG_NOT_FOUND">>), Str(<<"MSG_NOT_INITIALIZED">>)}
        /\ "candidates" \in DOMAIN result
        /\ result.candidates = <<>>
        /\ "count" \in DOMAIN result
        /\ result.count = 0

\* C5: every value in a reason of a candidate, and in a reason of the hit's
\* evidence entry, is a value of that same hit's metadata map.
C5_ReasonsFromOwnMetadata ==
    /\ Len(evidence) <= Len(search_results)
    /\ \A i \in 1..Len(evidence) :
           \A j \in 1..Len(evidence[i].reasons) :
               LET r == evidence[i].reasons[j] IN
               r[Len(r)] \in ValuesOf(search_results[i].metadata)
    /\ "candidates" \in DOMAIN result =>
           /\ Len(result.candidates) <= Len(search_results)
           /\ \A i \in 1..Len(result.candidates) :
                  \A j \in 1..Len(result.candidates[i].reasons) :
                      result.candidates[i].reasons[j][2]
                          \in ValuesOf(search_results[i].metadata)

\* An answered query with two hits: the first has reasons in both channels,
\* the second has a metadata map without the first one's value.
C5_Witness ==
    /\ qpc = "Answered"
    /\ Len(search_results) = 2
    /\ "candidates" \in DOMAIN result
    /\ Len(result.candidates) = 2
    /\ result.candidates[1].reasons # <<>>
    /\ evidence[1].reasons # <<>>
    /\ "x" \notin ValuesOf(search_results[2].metadata)

\* C6: a query whose search returned n >= 1 hits returns the keys question,
\* answer, candidates and count, one candidate per hit in hit order and
\* count = n, whatever the explainer did.
C6_ResultShape ==
    (qpc = "Answered" /\ Len(search_results) >= 1) =>
        /\ {"question", "answer", "candidates", "count"} \subseteq DOMAIN result
        /\ result.count = Len(search_results)
        /\ Len(result.candidates) = Len(search_results)
        /\ \A i \in 1..Len(search_results) :
               result.candidates[i].path =
                   GetOr(search_results[i].metadata, "path", "unknown")

\* What does hold of such a result: the same, with the number of hits under
\* the key search_results_count.
CandidatesPerHit ==
    (qpc = "Answered" /\ Len(search_results) >= 1) =>
        /\ DOMAIN result = {"question", "answer", "candidates", "search_results_count"}
        /\ result.search_results_count = Len(search_results)
        /\ Len(result.candidates) = Len(search_results)
        /\ \A i \in 1..Len(search_results) :
               /\ result.candidates[i].path =
                      GetOr(search_results[i].metadata, "path", "unknown")
               /\ result.candidates[i].reasons =
                      CandidateReasons(search_results[i].metadata)

\* The outcomes of the HTTP call that are failures of the explainer: no
\* response, a status other than 200, or a 200 whose body is not a JSON object
\* with a response.
ExplainerFailed(o) ==
    \/ o.kind \in {"ConnectionError", "Timeout", "OtherException"}
    \/ /\ o.kind = "response"
       /\ \/ o.status # "200"
          \/ o.body \in {"not_json", "not_object", "no_response"}

\* The first piece of each message _call_llm returns for a failure.
FailureMessages == {"MSG_LLM_ERROR: ", "MSG_CANNOT_CONNECT", "MSG_TIMEOUT",
                    "MSG_ERROR_OCCURRED: ", "MSG_NO_ANSWER"}

QueryEdges ==
    {<<"Idle", "Searching">>, <<"Idle", "IndexUnavailable">>,
     <<"Searching", "NoResults">>, <<"Searching", "HasResults">>,
     <<"NoResults", "Answered">>, <<"HasResults", "Explaining">>,
     <<"Explaining", "Answered">>,
     <<"Answered", "Idle">>, <<"IndexUnavailable", "Idle">>}

\* What holds in every state of a query: the explainer is called at most once
\* and only after a search with hits, neither search nor explainer is called
\* without indexer, and a call that has not ended can take a step.
QueryDiscipline ==
    /\ qpc \in {"Idle", "Searching", "NoResults", "HasResults", "Explaining",
                "Answered", "IndexUnavailable"}
    /\ searches <= 1
    /\ llm_calls <= 1
    /\ llm_calls = 1 => (searches = 1 /\ search_results # <<>> /\ indexer # "None")
    /\ indexer = "None" => (searches = 0 /\ llm_calls = 0)
    /\ qpc \in {"IndexUnavailable", "NoResults"} => llm_calls = 0
    /\ (qpc = "Answered" /\ search_results = <<>>) => llm_calls = 0
    /\ qpc = "IndexUnavailable" => indexer = "None"
    /\ qpc \notin {"Idle", "Answered", "IndexUnavailable"} => ENABLED QueryNext

\* C8: every query() follows Idle -> Searching -> (NoResults | HasResults) ->
\* (Explaining -> Answered) | Answered; the explainer is invoked at most once
\* and only after a search with a hit, never without indexer or after zero
\* hits; the search is never invoked without indexer; every call ends in
\* Answered or IndexUnavailable.
C8_QueryStateMachine ==
    /\ []QueryDiscipline
    /\ [][qpc' # qpc => <<qpc, qpc'>> \in QueryEdges]_vars

\* A query that searched, found hits, called the explainer once and answered.
C8_Witness ==
    /\ qpc = "Answered"
    /\ searches = 1
    /\ llm_calls = 1
    /\ search_results # <<>>

-----------------------------------------------------------------------------
(* Claims about _create_document.                                           *)

\* The labels of the parts of a document, in order: a part starts the
\* document or follows the separator.
RECURSIVE LabelsFrom(_, _)
LabelsFrom(doc, i) ==
    IF i > Len(doc) THEN <<>>
    ELSE (IF i = 1 \/ doc[i - 1] = " | " THEN <<doc[i]>> ELSE <<>>) \o LabelsFrom(doc, i + 1)

DocLabels(doc) == LabelsFrom(doc, 1)

GenericLabels == <<"type: ", "name: ", "path: ", "size: ">>

KindSpecificLabels ==
    {"duration: ", "resolution: ", "fps: ", "codec: ", "title: ", "artist: ",
     "album: ", "format: ", "date: ", "camera: ", "contains: ", "entries: "}

\* type, name, path, size, then kind-specific parts, then has_text if at all.
InFixedOrder(labels) ==
    /\ Len(labels) >= 4
    /\ SubSeq(labels, 1, 4) = GenericLabels
    /\ \A i \in 5..Len(labels) :
          \/ labels[i] \in KindSpecificLabels
          \/ labels[i] = "has_text: " /\ i = Len(labels)

\* The order of the parts, which holds of every document built.
PartsInFixedOrder == \A i \in 1..Len(doc_runs) : InFixedOrder(DocLabels(doc_runs[i]))

\* C9: two calls of _create_document on an identical record return the same
\* string, with the parts in the order type, name, path, size, kind-specific
\* fields, has_text; also for records with two or more distinct source types.
C9_CreateDocumentDeterministic ==
    Len(doc_runs) = 2 =>
        /\ doc_runs[1] = doc_runs[2]
        /\ InFixedOrder(DocLabels(doc_runs[1]))
        /\ InFixedOrder(DocLabels(doc_runs[2]))

VideoWithoutVideoMeta(meta) ==
    /\ meta # NoRecord
    /\ GetOr(meta, "kind", "None") = "video"
    /\ "video_meta" \notin DOMAIN meta

HasTextSources(meta) == "text_sources" \in DOMAIN meta /\ meta["text_sources"] # <<>>

\* C10 as stated: the document of a record with kind = "video" and no
\* video_meta key is made only of the parts type, name, path and size,
\* whatever other fragments or text sources the record carries.
C10_OnlyGenericParts ==
    VideoWithoutVideoMeta(doc_record) =>
        \A i \in 1..Len(doc_runs) : DocLabels(doc_runs[i]) = GenericLabels

\* C10 amended: the document of a record with kind = "video" and no
\* video_meta key is made of the parts type, name, path and size, followed by
\* a has_text part exactly when the record has text sources; it has no
\* kind-specific part, whatever other fragments the record carries.
C10_GenericPartsThenHasText ==
    VideoWithoutVideoMeta(doc_record) =>
        \A i \in 1..Len(doc_runs) :
            DocLabels(doc_runs[i]) =
                GenericLabels \o (IF HasTextSources(doc_record) THEN <<"has_text: ">> ELSE <<>>)

\* A document has been built for a video record with no video_meta that
\* carries the fragments of the other kinds and has text sources.
C10_Witness ==
    /\ VideoWithoutVideoMeta(doc_record)
    /\ {"image_meta", "audio_meta", "archive_meta"} \subseteq DOMAIN doc_record
    /\ HasTextSources(doc_record)
    /\ doc_runs # <<>>

-----------------------------------------------------------------------------
(* Claims about index_metadata and search, checked under SpecIndexer.       *)

\* The record at position i of the batch fails: its document or its metadata
\* cannot be built, or the store refuses its add.
RecordFails(i) ==
    \/ DocumentRaises(metadata_list[i])
    \/ MetadataRaises(metadata_list[i])
    \/ i \in add_raised

\* The entries of the records i..n of the batch that do not fail, in order.
RECURSIVE CommittedFrom(_, _)
CommittedFrom(i, n) ==
    IF i > n THEN <<>>
    ELSE (IF RecordFails(i) THEN <<>>
          ELSE <<StoreEntry(metadata_list[i], i, hashseed)>>) \o CommittedFrom(i + 1, n)

\* The last k entries of the store.
LastEntries(k) == SubSeq(store, Len(store) - k + 1, Len(store))

\* The calls of one kind in the calls made on the store.
CallsOf(kind) == {j \in 1..Len(store_calls) : store_calls[j][1] = kind}

\* What holds while index_metadata runs on a store: the records the loop has
\* passed are in the store once each, in order, but for the failed ones, which
\* are logged; the call ends after the last record; it raises only in persist.
IsolationInvariant ==
    (chromadb_available /\ ipc \in {"loop", "returned", "raised"}) =>
        LET committed == CommittedFrom(1, idx - 1) IN
        /\ idx \in 1..(Len(metadata_list) + 1)
        /\ Len(store) >= Len(committed)
        /\ LastEntries(Len(committed)) = committed
        /\ \A i \in 1..(idx - 1) :
               /\ RecordFails(i) <=> i \in index_warnings
               /\ Cardinality({j \in CallsOf("add") : store_calls[j][2] = i}) <= 1
        /\ ipc \in {"returned", "raised"} => idx = Len(metadata_list) + 1
        /\ ipc = "raised" => store_calls[Len(store_calls)][1] = "persist"

\* C11: in index_metadata a record whose document, metadata or add raises is
\* skipped and does not stop the batch: every other record of the batch,
\* before and after it, is committed to the store exactly once, and the call
\* does not raise because of the record.
C11_FailureIsolation ==
    /\ []IsolationInvariant
    /\ [][store' # store =>
            /\ ipc = "loop"
            /\ idx <= Len(metadata_list)
            /\ ~DocumentRaises(metadata_list[idx])
            /\ ~MetadataRaises(metadata_list[idx])
            /\ idx \notin add_raised'
            /\ store' = Append(store, StoreEntry(metadata_list[idx], idx, hashseed))]_vars

\* index_metadata has returned on a batch of three whose second record failed:
\* the first and the third are the last two entries of the store.
C11_Witness ==
    /\ chromadb_available
    /\ ipc = "returned"
    /\ Len(metadata_list) = 3
    /\ index_warnings = {2}
    /\ Len(store) >= 2
    /\ LastEntries(2) = <<StoreEntry(metadata_list[1], 1, hashseed),
                          StoreEntry(metadata_list[3], 3, hashseed)>>

\* C12: every call of index_metadata on a store, whatever the length of the
\* batch and whichever records fail, calls persist() exactly once, after the
\* last add and never between two adds.
C12_PersistOnceAfterBatch ==
    chromadb_available =>
        /\ ipc = "loop" => CallsOf("persist") = {}
        /\ ipc \in {"returned", "raised"} =>
               /\ CallsOf("persist") = {Len(store_calls)}
               /\ idx = Len(metadata_list) + 1

\* index_metadata has returned on a batch with a failed record and two adds.
C12_Witness ==
    /\ chromadb_available
    /\ ipc = "returned"
    /\ index_warnings # {}
    /\ Cardinality(CallsOf("add")) >= 2
    /\ CallsOf("persist") = {Len(store_calls)}

\* What a search that found no usable store returns.
SearchIsTotal ==
    hits.called =>
        /\ hits.results \in Seq(
               [metadata : {store[i].metadata : i \in 1..Len(store)},
                path : {store[i].metadata.path : i \in 1..Len(store)}])
        /\ (~chromadb_available \/ hits.store_raised) => hits.results = <<>>

\* C13: search leaves the documents, metadatas and ids of the store as they
\* are, and returns an empty list, instead of raising, when db is None or the
\* store query raises.
C13_SearchReadOnlyTotal ==
    /\ []SearchIsTotal
    /\ [][hits' # hits => store' = store]_vars

\* A search on a store with entries whose query raised.
C13_Witness ==
    /\ hits.called
    /\ hits.store_raised
    /\ chromadb_available
    /\ store # <<>>
    /\ hits.results = <<>>

\* C16: the candidate of a hit on an indexed video record of 1920 by 1080 has
\* the record's path and the reason resolution=1920x1080, and every reason of
\* a candidate is <metadata key>=<that key's value in the hit's metadata>.
C16_ReasonsAreFieldValue ==
    hits.called =>
        \A i \in 1..Len(hits.results) :
            LET meta == hits.results[i].metadata
                c == hits.candidates[i]
            IN
            /\ GetOr(meta, "resolution", "") = "1920x1080" =>
                   /\ c.path = meta["path"]
                   /\ <<"resolution", "=", "1920x1080">> \in Range(c.reasons)
            /\ \A r \in Range(c.reasons) :
                   \E k \in DOMAIN meta : r = <<k, "=", meta[k]>>

\* What the candidate of such a hit does have: the path and the resolution
\* under the label of _format_candidates.
LabelledResolution ==
    hits.called =>
        \A i \in 1..Len(hits.results) :
            LET meta == hits.results[i].metadata
                c == hits.candidates[i]
            IN GetOr(meta, "resolution", "") = "1920x1080" =>
                   /\ c.path = meta["path"]
                   /\ <<"L_RESOLUTION: ", "1920x1080">> \in Range(c.reasons)

-----------------------------------------------------------------------------
(* Claims about ArchiveListExtractor, checked under SpecArchive.            *)

\* A warning that starts with the literal text.
WarningsOf(text) ==
    {j \in 1..Len(archive_result["warnings"]) :
        archive_result["warnings"][j][1] = Lit(text)}

\* extract() has returned for a zip or tar archive the library could open.
ListedArchive ==
    /\ archive # NoArchive
    /\ archive.ext \in {".zip", ".tar", ".gz", ".tgz"}
    /\ archive.readable

\* C14: for a zip or tar archive with n entries and the cap c, extract returns
\* entry_count = min(n, c) and the first min(n, c) entries in listing order;
\* there is a truncation warning, which holds the number c, exactly when n > c.
C14_EntryCap ==
    ListedArchive =>
        LET n == Len(archive.listing)
            c == max_entries
            shown == archive_result["entries"]
        IN
        /\ archive_result["entry_count"] = Min(n, c)
        /\ Len(shown) = Min(n, c)
        /\ \A i \in 1..Len(shown) : shown[i]["name"] = archive.listing[i].name
        /\ (n > c) <=> (WarningsOf("Archive truncated: ") # {})
        /\ \A j \in WarningsOf("Archive truncated: ") :
               \E k \in 1..Len(archive_result["warnings"][j]) :
                   archive_result["warnings"][j][k] = [num |-> c]

\* A zip archive of three entries listed under a cap of two.
C14_Witness ==
    /\ ListedArchive
    /\ archive.ext = ".zip"
    /\ Len(archive.listing) = 3
    /\ max_entries = 2
    /\ archive_result["entry_count"] = 2
    /\ WarningsOf("Archive truncated: ") # {}

\* The components of a path, cut at "/".
RECURSIVE Components(_, _)
Components(path, current) ==
    IF path = <<>> THEN {current}
    ELSE IF Head(path) = "/" THEN {current} \cup Components(Tail(path), <<>>)
    ELSE Components(Tail(path), Append(current, Head(path)))

\* The name has a parent-directory component or starts at the root.
EscapesArchive(name) ==
    \/ <<".", ".">> \in Components(name, <<>>)
    \/ (Len(name) >= 1 /\ name[1] = "/")

\* extract() has returned for an archive of a supported format that could be
\* opened, or listed by its command.
SupportedArchive ==
    /\ archive # NoArchive
    /\ \/ archive.ext \in {".zip", ".tar", ".gz", ".tgz"} /\ archive.readable
       \/ archive.ext \in {".7z", ".rar"} /\ archive.command = "ok"

\* C15: for an archive of any supported format, every entry, at any position,
\* whose name has a parent-directory marker or starts with an absolute-path
\* marker is listed with a traversal warning, and the warnings of the archive
\* hold one with the entry's name.
C15_TraversalDetected ==
    SupportedArchive =>
        \A i \in 1..Len(archive.listing) :
            EscapesArchive(archive.listing[i].name) =>
                /\ \E j \in 1..Len(archive_result["entries"]) :
                       /\ archive_result["entries"][j]["name"] = archive.listing[i].name
                       /\ "warning" \in DOMAIN archive_result["entries"][j]
                /\ \E j \in WarningsOf("Path traversal in: ") :
                       archive_result["warnings"][j][2] = [name |-> archive.listing[i].name]

\* What holds of the entries that are listed: those of zip and tar archives
\* below the cap.
ListedTraversalDetected ==
    ListedArchive =>
        \A i \in 1..Len(archive_result["entries"]) :
            EscapesArchive(archive.listing[i].name) =>
                /\ archive_result["entries"][i]["name"] = archive.listing[i].name
                /\ "warning" \in DOMAIN archive_result["entries"][i]
                /\ \E j \in WarningsOf("Path traversal in: ") :
                       archive_result["warnings"][j][2] = [name |-> archive.listing[i].name]

-----------------------------------------------------------------------------
(* Claims about MediaScanner, checked under SpecScanner.                    *)

\* The paths of the tree that scan() makes a record of.
MediaPaths ==
    {tree[i].path : i \in {j \in 1..Len(tree) :
        Lower(tree[j].ext) \in DOMAIN TargetExtensions /\ tree[j].stat_ok}}

\* The records of metadata_list with the path.
RecordsOf(path) ==
    {i \in 1..Len(scanner_metadata_list) : scanner_metadata_list[i].path = path}

\* C17: after one or more scan() calls of one scanner over the same files,
\* metadata_list, which is what scan() returned, holds exactly one record for
\* each media path.
C17_OneRecordPerPath ==
    (spc = "returned" /\ root_exists) =>
        /\ scan_result = scanner_metadata_list
        /\ \A i \in 1..Len(scanner_metadata_list) :
               scanner_metadata_list[i].path \in MediaPaths
        /\ \A path \in MediaPaths : Cardinality(RecordsOf(path)) = 1

\* What does hold: each scan() adds one record for each media path.
OneRecordPerPathAndScan ==
    (spc = "returned" /\ root_exists) =>
        /\ scan_result = scanner_metadata_list
        /\ \A path \in MediaPaths : Cardinality(RecordsOf(path)) = scans

-----------------------------------------------------------------------------
(* Claims about TextSourceExtractor, checked under SpecText.                *)

\* The files of the call that exist and are over the ceiling.
GatedFiles ==
    {i \in 1..Len(sidecars) :
        sidecars[i].exists /\ sidecars[i].getsize_ok /\ sidecars[i].size > text_max_size}

\* The entries of text_sources, and the extraction errors, that are about a file.
EntriesOf(f) ==
    {j \in 1..Len(text_result.text_sources) :
        text_result.text_sources[j]["filename"] = f.filename}

ErrorsOf(f) ==
    {j \in 1..Len(text_result.extraction_errors) :
        text_result.extraction_errors[j][1] \in {[id |-> f.id], [filename |-> f.filename]}}

\* The sum of the full lengths of the files that have an entry.
RECURSIVE FullLengthsFrom(_)
FullLengthsFrom(i) ==
    IF i > Len(sidecars) THEN 0
    ELSE (IF EntriesOf(sidecars[i]) # {} THEN Len(sidecars[i].text) ELSE 0)
         + FullLengthsFrom(i + 1)

\* C18: in extract_from_sidecar and in extract_from_path an existing sidecar
\* file over text_max_size is not read, has no entry in text_sources, adds
\* nothing to total_text_size and has exactly one extraction error; a file of
\* exactly the ceiling is read.
C18_SizeGate ==
    text_op # "none" =>
        /\ \A i \in GatedFiles :
               /\ sidecars[i].id \notin Range(text_reads)
               /\ EntriesOf(sidecars[i]) = {}
               /\ Cardinality(ErrorsOf(sidecars[i])) = 1
        /\ text_result.total_text_size = FullLengthsFrom(1)
        /\ \A i \in 1..Len(sidecars) :
               (sidecars[i].exists /\ sidecars[i].getsize_ok
                    /\ sidecars[i].size = text_max_size) =>
                   sidecars[i].id \in Range(text_reads)

\* A call over two files above the ceiling, one at the ceiling and a small one.
C18_Witness ==
    /\ text_op = "extract_from_path"
    /\ Cardinality(GatedFiles) = 2
    /\ \E i \in 1..Len(sidecars) : sidecars[i].size = text_max_size
    /\ Len(text_reads) >= 2
    /\ Len(text_result.extraction_errors) = 2

\* The sum of the lengths of the previews.
RECURSIVE PreviewLengthsFrom(_)
PreviewLengthsFrom(j) ==
    IF j > Len(text_result.text_sources) THEN 0
    ELSE Len(text_result.text_sources[j]["text"]) + PreviewLengthsFrom(j + 1)

\* The file an entry of text_sources is about.
FileOfEntry(j) ==
    CHOOSE i \in 1..Len(sidecars) :
        sidecars[i].filename = text_result.text_sources[j]["filename"]

\* C19: after extract_from_sidecar the text of every entry of text_sources is
\* a prefix of the file's decoded text of at most 1000 characters, and
\* total_text_size is the sum of the full decoded lengths of the files that
\* have an entry: at least the sum of the previews, and more when a file is
\* longer than the cap.
C19_PreviewAndFullLength ==
    text_op = "extract_from_sidecar" =>
        /\ \A j \in 1..Len(text_result.text_sources) :
               LET preview == text_result.text_sources[j]["text"]
                   full == sidecars[FileOfEntry(j)].text
               IN /\ Len(preview) <= 1000
                  /\ Len(preview) <= Len(full)
                  /\ preview = SubSeq(full, 1, Len(preview))
                  /\ Len(full) <= 1000 => preview = full
        /\ text_result.total_text_size = FullLengthsFrom(1)
        /\ text_result.total_text_size >= PreviewLengthsFrom(1)
        /\ (\E j \in 1..Len(text_result.text_sources) :
                Len(sidecars[FileOfEntry(j)].text) > 1000)
               => text_result.total_text_size > PreviewLengthsFrom(1)

\* A call that kept the preview of a text longer than the cap beside a short one.
C19_Witness ==
    /\ text_op = "extract_from_sidecar"
    /\ Len(text_result.text_sources) >= 2
    /\ \E j \in 1..Len(text_result.text_sources) :
           /\ Len(text_result.text_sources[j]["text"]) = 1000
           /\ Len(sidecars[FileOfEntry(j)].text) > 1000
    /\ \E j \in 1..Len(text_result.text_sources) :
           Len(text_result.text_sources[j]["text"]) < 1000
    /\ text_result.total_text_size > PreviewLengthsFrom(1)

-----------------------------------------------------------------------------
(* Claims about VideoAudioMetaExtractor, checked under SpecVideoAudio.      *)

\* The call got the description of the file from ffprobe.
Probed == va_op = "extract" /\ ffprobe.outcome = "printed"

ProbedFormat == GetOrEmpty(ffprobe.data, "format")

ProbedStreams == IF "streams" \in DOMAIN ffprobe.data THEN ffprobe.data["streams"] ELSE <<>>

StreamsOfType(type) ==
    {i \in 1..Len(ProbedStreams) : ProbedStreams[i]["codec_type"] = Str(<<type>>)}

\* The frame rates and the durations of the model that are numbers.
NumericFrameRates ==
    { <<"3", "0", "/", "1">>, <<"3", "0", "0", "0", "0", "/", "1", "0", "0", "1">> }

NumericDurations == { <<"1", "2", ".", "5">>, <<"9", "0">> }

\* The duration is missing, or is no number.
DurationIsNull ==
    "duration_sec" \in DOMAIN va_meta => va_meta["duration_sec"].type = "NoneType"

\* The fps of the video entry is null.
FpsIsNull == va_meta["video"]["fps"].type = "NoneType"

\* The tags, the video stream and the audio streams of the output are in the
\* dictionary, and its error is null.
OtherFieldsExtracted ==
    /\ va_meta["error"].type = "NoneType"
    /\ ("tags" \in DOMAIN ProbedFormat /\ DOMAIN ProbedFormat["tags"] # {}) =>
           /\ "tags" \in DOMAIN va_meta
           /\ \A k \in DOMAIN ProbedFormat["tags"] :
                  va_meta["tags"][k] = ProbedFormat["tags"][k]
    /\ StreamsOfType("video") # {} =>
           /\ "video" \in DOMAIN va_meta
           /\ va_meta["video"]["codec"] = Str(<<"h264">>)
           /\ va_meta["video"]["width"] = Str(<<"1920">>)
    /\ StreamsOfType("audio") # {} =>
           /\ "audio" \in DOMAIN va_meta
           /\ Len(va_meta["audio"]) = Cardinality(StreamsOfType("audio"))
    /\ StreamsOfType("audio") = {} => "audio" \notin DOMAIN va_meta

\* The last video stream of the output: the one the video entry is of.
LastVideoStream ==
    ProbedStreams[CHOOSE i \in StreamsOfType("video") :
                      \A j \in StreamsOfType("video") : j <= i]

\* The fps is null when r_frame_rate is missing, malformed or over zero.
FpsDefensive ==
    StreamsOfType("video") # {} =>
        /\ "video" \in DOMAIN va_meta
        /\ \/ "r_frame_rate" \notin DOMAIN LastVideoStream
           \/ LastVideoStream["r_frame_rate"].value \notin NumericFrameRates
           => FpsIsNull
        /\ ("r_frame_rate" \in DOMAIN LastVideoStream
               /\ LastVideoStream["r_frame_rate"].value = <<"3", "0", "/", "1">>)
           => va_meta["video"]["fps"] = [type |-> "float", value |-> <<30, 1>>]

\* The duration is null or absent when the field is missing or malformed.
DurationDefensive ==
    /\ \/ "duration" \notin DOMAIN ProbedFormat
       \/ ProbedFormat["duration"].value \notin NumericDurations
       => DurationIsNull
    /\ ("duration" \in DOMAIN ProbedFormat
           /\ ProbedFormat["duration"].value = <<"1", "2", ".", "5">>)
       => /\ "duration_sec" \in DOMAIN va_meta
          /\ va_meta["duration_sec"] = [type |-> "float", value |-> <<25, 2>>]

\* C20: for fps and for duration, a zero denominator, a missing field or a
\* malformed numeric string gives null for that field only: extract() does
\* not raise, and the tags, the video stream and the audio streams of the same
\* ffprobe output are still extracted, with error left null.
C20_DefensiveNumericFields ==
    Probed => /\ FpsDefensive
              /\ DurationDefensive
              /\ OtherFieldsExtracted

\* What holds: the fps is defensive whatever r_frame_rate is, as long as the
\* duration of the format is missing or a number; with a duration that is no
\* number the dictionary has the error and nothing else of the output.
DefensiveFpsOnly ==
    Probed =>
        IF "duration" \in DOMAIN ProbedFormat
               /\ ProbedFormat["duration"].value \notin NumericDurations
        THEN /\ DOMAIN va_meta = {"ffprobe_available", "error"}
             /\ va_meta["error"].type = "str"
        ELSE FpsDefensive /\ DurationDefensive /\ OtherFieldsExtracted

\* A zero denominator beside a numeric duration, tags and an audio stream.
ZeroDenominatorProbed ==
    /\ Probed
    /\ StreamsOfType("video") # {} /\ StreamsOfType("audio") # {}
    /\ "r_frame_rate" \in DOMAIN LastVideoStream
    /\ LastVideoStream["r_frame_rate"].value = <<"3", "0", "/", "0">>
    /\ "duration_sec" \in DOMAIN va_meta
    /\ "tags" \in DOMAIN va_meta
    /\ FpsIsNull

-----------------------------------------------------------------------------
(* Claims about AudioMetaExtractor, checked under SpecAudio.                *)

\* The tag library is unavailable, raises, or yields no tags and no info.
TagLibraryFails ==
    \/ ~mutagen_available
    \/ mutagen.outcome \in {"raises", "returns None"}
    \/ /\ mutagen.outcome = "returns audio"
       /\ ~(mutagen.audio.has_tags /\ DOMAIN mutagen.audio.tags # {})
       /\ ~mutagen.audio.has_info

\* The prober is unavailable, or its run gives no description that parses.
ProberFails ==
    \/ ~ffprobe_available
    \/ ffprobe.outcome \in {"timeout", "failed", "not json"}
    \/ /\ ffprobe.outcome = "printed"
       /\ "duration" \in DOMAIN GetOrEmpty(ffprobe.data, "format")
       /\ GetOrEmpty(ffprobe.data, "format")["duration"].value \notin NumericDurations

ProberInvoked == \E i \in 1..Len(audio_calls) : audio_calls[i] = "ffprobe"

\* C21: extract tries the tag library first; the prober is invoked if and
\* only if the tag library is unavailable, raises, or yields no tags and no
\* info; when the tag library succeeds the prober is not invoked; when both
\* fail the dictionary has an error that is a string and no tags, info or
\* duration; a dictionary is returned in every case.
C21_FallbackChain ==
    audio_op = "extract" =>
        /\ mutagen_available => audio_calls # <<>> /\ audio_calls[1] = "mutagen"
        /\ ProberInvoked <=> TagLibraryFails
        /\ ~TagLibraryFails =>
               /\ audio_calls = <<"mutagen">>
               /\ ffprobe = NoProbe
               /\ audio_meta["error"].type = "NoneType"
               /\ {"tags", "info"} \cap DOMAIN audio_meta # {}
        /\ (TagLibraryFails /\ ProberFails) =>
               /\ audio_meta["error"].type = "str"
               /\ DOMAIN audio_meta \cap
                      {"tags", "info", "duration_sec", "video", "audio"} = {}
        /\ {"mutagen_available", "error"} \subseteq DOMAIN audio_meta

\* A call in which mutagen raised and ffprobe timed out.
C21_Witness ==
    /\ audio_op = "extract"
    /\ mutagen.outcome = "raises"
    /\ ffprobe.outcome = "timeout"
    /\ audio_calls = <<"mutagen", "ffprobe">>
    /\ audio_meta["error"] = Str(<<"ffprobe timeout">>)

-----------------------------------------------------------------------------
(* Claims about the store over several calls of index_metadata, checked     *)
(* under SpecIndexer.                                                       *)

\* The loop is at a record whose document and metadata can be built.
AtGoodRecord ==
    /\ ipc = "loop"
    /\ idx <= Len(metadata_list)
    /\ ~DocumentRaises(metadata_list[idx])
    /\ ~MetadataRaises(metadata_list[idx])

\* The paths of the documents the store holds.
StoredPaths == {store[k].metadata["path"] : k \in 1..Len(store)}

\* The documents of the store with a path.
DocumentsOf(path) == {k \in 1..Len(store) : store[k].metadata["path"] = path}

\* No document of the store is removed or overwritten.
StoreOnlyGrows == [][Len(store') >= Len(store) /\ SubSeq(store', 1, Len(store)) = store]_vars

\* The add of the record the loop is at raises though the store does not
\* refuse its id: the store fails for a reason of its own.
UnrelatedFailure ==
    idx \in add_raised' /\ (~unique_ids \/ MediaId(idx) \notin StoredIds)

\* C22: the store is append-only from the indexer: no document an earlier
\* call committed is removed or overwritten, and indexing a record whose path
\* is already in the store adds a further document with that path (unless
\* the store fails for a reason that has nothing to do with what it holds).
C22_AppendOnlyDuplicates ==
    /\ StoreOnlyGrows
    /\ [][(AtGoodRecord /\ idx' = idx + 1
              /\ metadata_list[idx]["path"] \in StoredPaths
              /\ ~UnrelatedFailure)
          => /\ Len(store') = Len(store) + 1
             /\ Cardinality({k \in 1..Len(store') :
                    store'[k].metadata["path"] = metadata_list[idx]["path"]})
                  = Cardinality(DocumentsOf(metadata_list[idx]["path"])) + 1]_vars

\* What holds: a store that does not look at the ids gets the further
\* document; one that does keeps what it has and the record is logged as failed.
DuplicatesUnlessIdRefused ==
    [][(AtGoodRecord /\ idx' = idx + 1 /\ metadata_list[idx]["path"] \in StoredPaths
           /\ ~UnrelatedFailure)
       => IF unique_ids /\ MediaId(idx) \in StoredIds
          THEN store' = store /\ idx \in index_warnings'
          ELSE store' = Append(store, StoreEntry(metadata_list[idx], idx, hashseed))]_vars

\* A store that does not look at the ids holds two documents with one path.
SamePathTwice ==
    /\ ~unique_ids
    /\ ipc = "returned"
    /\ \E path \in StoredPaths : Cardinality(DocumentsOf(path)) = 2

\* C28: over any sequence of index_metadata calls on one store the ids passed
\* to add are pairwise distinct: no two documents of the store share an id,
\* and no add is made with an id the store already holds.
C28_UniqueIds ==
    /\ [](\A j, k \in 1..Len(store) : j # k => store[j].id # store[k].id)
    /\ [][store_calls' = Append(store_calls, <<"add", idx>>)
              => MediaId(idx) \notin StoredIds]_vars

\* What holds: the ids passed to add in one call of index_metadata are
\* pairwise distinct.
UniqueIdsInOneCall ==
    \A j, k \in CallsOf("add") : j # k => store_calls[j][2] # store_calls[k][2]

-----------------------------------------------------------------------------
(* Claims about the parts of the document, checked under SpecDoc.           *)

\* The first document built of the record, as its pieces.
BuiltDocument == doc_runs[1]

\* The labels of the parts whose field the code tests for a value.
TestedLabels ==
    {"resolution: ", "fps: ", "codec: ", "title: ", "artist: ", "album: ", "format: "}

\* The labels of all parts.
PartLabels ==
    TestedLabels \cup {"type: ", "name: ", "path: ", "size: ", "duration: ", "date: ",
                       "camera: ", "contains: ", "entries: ", "has_text: "}

\* The part with the label at position i of the document has a value: a
\* piece follows that is not empty, not the text of a null and not the
\* separator.
HasRealValue(i) ==
    /\ i < Len(BuiltDocument)
    /\ BuiltDocument[i + 1] \notin {"", "None", " | "}

\* C23: a field that is missing, null or empty (duration_sec = null, an empty
\* list of archive entries, a missing name) never gives a part with an empty
\* value or with the text of a null: every part of every document has a value.
C23_AbsentFieldsOmitted ==
    doc_runs # <<>> =>
        \A i \in 1..Len(BuiltDocument) :
            BuiltDocument[i] \in PartLabels => HasRealValue(i)

\* What holds: the parts of the fields the code tests for a value (width and
\* height, fps, codec, the tags, format) are left out when the field is
\* missing, null or empty.
TestedFieldsOmitted ==
    doc_runs # <<>> =>
        \A i \in 1..Len(BuiltDocument) :
            BuiltDocument[i] \in TestedLabels => HasRealValue(i)

\* The document of an archive whose list of entries is empty.
EmptyEntriesPart ==
    /\ doc_runs # <<>>
    /\ GetOr(doc_record, "kind", "None") = "archive"
    /\ "archive_meta" \in DOMAIN doc_record
    /\ "entries" \in DOMAIN doc_record["archive_meta"]
    /\ doc_record["archive_meta"]["entries"] = <<>>
    /\ \E i \in 1..Len(BuiltDocument) :
           BuiltDocument[i] = "entries: " /\ ~HasRealValue(i)

-----------------------------------------------------------------------------
(* Claims about the resolution in the document and in the metadata,         *)
(* checked under SpecDoc.                                                   *)

\* The record is a video or an image with its fragment.
VideoOrImage == IsKindWithMeta(doc_record, "video") \/ IsKindWithMeta(doc_record, "image")

\* The fragment that has the width and the height, an empty one when a video
\* has no stream.
SizedFragment ==
    IF IsKindWithMeta(doc_record, "image") THEN doc_record["image_meta"]
    ELSE GetOr(doc_record["video_meta"], "video", EmptyDict)

\* The positions of the resolution part in the document.
ResolutionParts == {i \in 1..Len(BuiltDocument) : BuiltDocument[i] = "resolution: "}

\* The width and the height are both there with a value.
WidthAndHeight == TruthyField(SizedFragment, "width") /\ TruthyField(SizedFragment, "height")

\* C30: for every video or image record _extract_metadata sets the key
\* resolution if and only if _create_document emits a resolution part, both
\* with the same value, built only from a present width and a present height:
\* a width with a null or missing height gives no resolution in either.
C30_ResolutionAgrees ==
    (doc_runs # <<>> /\ VideoOrImage) =>
        /\ "resolution" \in DOMAIN doc_metadata.dict <=> ResolutionParts # {}
        /\ "resolution" \in DOMAIN doc_metadata.dict =>
               /\ WidthAndHeight
               /\ \A i \in ResolutionParts :
                      doc_metadata.dict["resolution"]
                          = ResolutionText(BuiltDocument[i + 1], BuiltDocument[i + 3])
        /\ ~WidthAndHeight => ResolutionParts = {}

\* What holds: with a width and a height the two agree, and without a width
\* neither has a resolution; the document never has one without both.
ResolutionAgreesGivenWidthAndHeight ==
    (doc_runs # <<>> /\ VideoOrImage) =>
        /\ WidthAndHeight =>
               /\ "resolution" \in DOMAIN doc_metadata.dict
               /\ \A i \in ResolutionParts :
                      doc_metadata.dict["resolution"]
                          = ResolutionText(BuiltDocument[i + 1], BuiltDocument[i + 3])
        /\ WidthAndHeight <=> ResolutionParts # {}
        /\ ~TruthyField(SizedFragment, "width") =>
               "resolution" \notin DOMAIN doc_metadata.dict

\* A video with a width and a null height: the metadata has a resolution
\* made of the width and the text of the null, the document has none.
ResolutionOfNullHeight ==
    /\ doc_runs # <<>>
    /\ IsKindWithMeta(doc_record, "video")
    /\ ResolutionParts = {}
    /\ "resolution" \in DOMAIN doc_metadata.dict
    /\ doc_metadata.dict["resolution"] = "1920xNone"

-----------------------------------------------------------------------------
(* Claims about the fields the evidence and the candidates report, checked  *)
(* under SpecQuery.                                                         *)

\* The whitelist of the evidence.
Whitelist ==
    {"title", "artist", "album", "resolution", "duration", "format", "entries", "has_text"}

\* A query has its result and its evidence: one evidence entry and one
\* candidate for every hit.
HasEvidenceAndCandidates ==
    /\ qpc = "Answered"
    /\ search_results # <<>>
    /\ Len(evidence) = Len(search_results)
    /\ Len(result.candidates) = Len(search_results)

\* The metadata field a reason of an evidence entry names.
EvidenceField(reason) == IF reason[1] = "has_text:" THEN "has_text" ELSE reason[1]

\* The metadata field a reason of a candidate names, by its label.
CandidateField(reason) ==
    CASE reason[1] = "L_FILENAME: " -> "filename_match"
      [] reason[1] = "L_RESOLUTION: " -> "resolution"
      [] reason[1] = "L_DURATION: " -> "duration"
      [] reason[1] = "L_ARTIST: " -> "artist"
      [] reason[1] = "L_TITLE: " -> "title"
      [] reason[1] = "L_ENTRIES: " -> "entries"
      [] reason[1] = "L_TEXT: " -> "has_text"
      [] OTHER -> "?"

\* The fields the evidence entry, and the candidate, of hit i report.
EvidenceFields(i) == {EvidenceField(r) : r \in Range(evidence[i].reasons)}

CandidateFields(i) == {CandidateField(r) : r \in Range(result.candidates[i].reasons)}

\* The keys of the metadata map of hit i.
HitKeys(i) == DOMAIN HitMeta(search_results, i)

\* C24: for every hit and every metadata map the store may return, the fields
\* reported in the hit's evidence entry and in its candidate's reasons are
\* fields of the whitelist that are keys of the hit's metadata map.
C24_EvidenceWhitelist ==
    HasEvidenceAndCandidates =>
        \A i \in 1..Len(search_results) :
            /\ EvidenceFields(i) \subseteq Whitelist \cap HitKeys(i)
            /\ CandidateFields(i) \subseteq Whitelist \cap HitKeys(i)

\* What holds: the evidence entry reports exactly the fields of the whitelist
\* that are keys of the map; the candidate reports keys of the map that have
\* a value, of the whitelist or filename_match.
WhitelistOrFilenameMatch ==
    HasEvidenceAndCandidates =>
        \A i \in 1..Len(search_results) :
            /\ EvidenceFields(i) = Whitelist \cap HitKeys(i)
            /\ CandidateFields(i) \subseteq (Whitelist \cup {"filename_match"}) \cap HitKeys(i)

\* A candidate that reports filename_match.
FilenameMatchReported ==
    /\ HasEvidenceAndCandidates
    /\ \E i \in 1..Len(search_results) : "filename_match" \in CandidateFields(i)

\* C29: for every hit the fields listed in its entry of the evidence text are
\* the fields listed in its candidate's reasons: a field with a present
\* value (album and format too, and a present but empty value) is reported
\* by both or by neither.
C29_ChannelsAgree ==
    HasEvidenceAndCandidates =>
        \A i \in 1..Len(search_results) : EvidenceFields(i) = CandidateFields(i)

\* What holds: but for filename_match, what the candidate reports the
\* evidence entry reports too; the evidence entry alone reports album,
\* format and the fields whose value is empty.
CandidateWithinEvidence ==
    HasEvidenceAndCandidates =>
        \A i \in 1..Len(search_results) :
            /\ CandidateFields(i) \ {"filename_match"} \subseteq EvidenceFields(i)
            /\ \A k \in EvidenceFields(i) \ CandidateFields(i) :
                   k \in {"album", "format"} \/ HitMeta(search_results, i)[k] = ""

\* A hit with an album: the evidence entry lists it, the candidate does not.
AlbumInEvidenceOnly ==
    /\ HasEvidenceAndCandidates
    /\ \E i \in 1..Len(search_results) :
           /\ "album" \in EvidenceFields(i)
           /\ HitMeta(search_results, i)["album"] # ""
           /\ "album" \notin CandidateFields(i)

-----------------------------------------------------------------------------
(* Claims about chunk ids and offsets, checked under SpecChunker.           *)

\* A call of chunk or chunk_by_sentences has returned its list.
ChunksReturned == lastCall.op \in {"chunk", "chunk_by_sentences"} /\ lastCall.outcome = "return"

\* The k-th chunk of the list (1-based) has the id k - 1.
IdIsPosition(k) == lastCall.chunks[k].chunk_id = k - 1

\* The k-th chunk's offsets are positions of its text in the input.
OffsetsLocateText(k) ==
    LET c == lastCall.chunks[k] IN
    /\ c.text = Slice(lastCall.text, c.start_char, c.end_char)
    /\ c.length = c.end_char - c.start_char

StartsNonDecreasing ==
    \A k \in 1..(Len(lastCall.chunks) - 1) :
        lastCall.chunks[k].start_char <= lastCall.chunks[k + 1].start_char

\* C25: for chunk and chunk_by_sentences, every text and every metadata map, the
\* i-th chunk has chunk_id = i, the start_char values do not decrease along the
\* list, chunk.text = text[start_char:end_char] and length = end_char - start_char.
C25_IdsAndOffsets ==
    ChunksReturned =>
        /\ StartsNonDecreasing
        /\ \A k \in 1..Len(lastCall.chunks) : IdIsPosition(k) /\ OffsetsLocateText(k)

\* What holds: the offsets of chunk() locate the text, the starts never decrease in
\* either operation, length = end_char - start_char in both, and the id is the
\* position unless the metadata has a chunk_id of its own.
IdsAndOffsetsOfChunk ==
    ChunksReturned =>
        /\ StartsNonDecreasing
        /\ \A k \in 1..Len(lastCall.chunks) :
               /\ "chunk_id" \notin DOMAIN lastCall.metadata => IdIsPosition(k)
               /\ lastCall.op = "chunk" => OffsetsLocateText(k)
               /\ lastCall.chunks[k].length
                      = lastCall.chunks[k].end_char - lastCall.chunks[k].start_char

\* chunk_by_sentences, no metadata, a whitespace-only line between two sentences:
\* the second chunk's offsets are not where its text is.
OffsetsDriftAfterBlankLine ==
    /\ lastCall.op = "chunk_by_sentences"
    /\ lastCall.metadata = <<>>
    /\ lastCall.text = <<"a", ".", "\n", "a">>
    /\ Len(lastCall.chunks) = 2
    /\ ~OffsetsLocateText(2)

-----------------------------------------------------------------------------
(* Claims about the owner of a sidecar file, checked under SpecScanner and  *)
(* SpecText.                                                                *)

\* The paths of the sidecar files the i-th record of the returned list refers to.
SidecarPathsOf(i) ==
    {scan_result[i].sidecar_files[k].path : k \in DOMAIN scan_result[i].sidecar_files}

\* Two records of the returned list that refer to one sidecar file.
SharingRecords ==
    {p \in (1..Len(scan_result)) \X (1..Len(scan_result)) :
        p[1] < p[2] /\ SidecarPathsOf(p[1]) \cap SidecarPathsOf(p[2]) # {}}

\* A scan over an existing root has returned its list.
ScanReturned == spc = "returned" /\ root_exists

\* The sidecar files the text sources of a result for a media path come from.
SourcePaths(media, extracted) ==
    {SidecarPath(media, extracted.text_sources[j]["extension"]) :
        j \in 1..Len(extracted.text_sources)}

\* What extract_from_path gives for another media path over the same directory.
SourcePathsFor(media) ==
    SourcePaths(media, ExtractTexts("extract_from_path", FilesBeside(media, sidecars)).result)

\* The media paths whose text sources come from a file the sources of the call
\* come from too.
SharingMedia ==
    {media \in MediaArguments \ {text_media} :
        SourcePaths(text_media, text_result) \cap SourcePathsFor(media) # {}}

\* C26: after a scan every sidecar file is referred to by the sidecar_files of at
\* most one record, and the text sources extract_from_path derives for two
\* different media paths never come from the same sidecar file.
C26_SidecarOwnership ==
    /\ ScanReturned => SharingRecords = {}
    /\ text_op = "extract_from_path" => SharingMedia = {}

\* What holds: a sidecar file is shared only by records, and by media paths, of
\* one name in one directory.
SharedOnlyBySameName ==
    /\ ScanReturned =>
           \A p \in SharingRecords :
               scan_result[p[1]].name_without_ext = scan_result[p[2]].name_without_ext
    /\ text_op = "extract_from_path" =>
           \A media \in SharingMedia :
               /\ media.dirname = text_media.dirname
               /\ media.basename = text_media.basename

\* One scan of a.mp4 and a.mp3 beside a.srt: two records of different paths refer
\* to /m/a.srt.
OneSrtTwoRecords ==
    /\ ScanReturned
    /\ scans = 1
    /\ \E p \in SharingRecords :
           /\ scan_result[p[1]].path # scan_result[p[2]].path
           /\ <<"/m/", "a", ".srt">> \in SidecarPathsOf(p[1]) \cap SidecarPathsOf(p[2])

\* extract_from_path of movie.mp4 beside movie.srt: movie.mkv has the same source.
OneSrtTwoMedia ==
    /\ text_op = "extract_from_path"
    /\ text_media.ext = ".mp4"
    /\ \E media \in SharingMedia :
           /\ media.ext = ".mkv"
           /\ SidecarPath(media, ".srt") \in SourcePaths(text_media, text_result)

-----------------------------------------------------------------------------
(* Claims about a search beside a running index_metadata, checked under     *)
(* SpecConcurrent.                                                          *)

\* The records of the running batch, from position i on, that get as far as the add.
AddsToCome(i) ==
    {j \in i..Len(metadata_list) :
        ~DocumentRaises(metadata_list[j]) /\ ~MetadataRaises(metadata_list[j])}

\* The adds the running batch has made.
AddsMade == {k \in 1..Len(store_calls) : store_calls[k][1] = "add"}

\* The running batch has made an add and has another to make.
BetweenTwoAdds == ipc = "loop" /\ AddsMade # {} /\ AddsToCome(idx) # {}

\* A search goes to the store in this step.
SearchExecutes == ~hits.called /\ hits'.called

\* C27: a search that runs beside an index_metadata batch never executes between
\* two adds of the batch, so that it sees none or all of the batch's documents.
C27_NoSearchInsideBatch == [][SearchExecutes => ~BetweenTwoAdds]_vars

\* What holds: a search never changes the store or the position of the batch.
SearchLeavesBatchAlone ==
    [][SearchExecutes => UNCHANGED <<store, idx, store_calls, ipc>>]_vars

\* A search has its hits while the batch it ran beside has an add made and an add
\* to make.
SearchInsideBatch == hits.called /\ BetweenTwoAdds

====
